---- MODULE Spec2Model ----
(***************************************************************************)
(* KishEditor: LaTeX <-> Tiptap tree serializer (lib/latex-serializer.ts), *)
(* LaTeX renderer error handling (lib/latex-renderer.ts) and the           *)
(* WysiwygEditor content-sync protocol (components/WysiwygEditor.tsx).     *)
(*                                                                         *)
(* A JavaScript string is a sequence of tokens.  Every token is either one *)
(* character the code tests for ("$", "&", "|", "{", "}", "[", "]", " ",   *)
(* newline), a run of characters none of which the code tests for (a word  *)
(* such as "itemize", a command such as "\textbf"), or the two-character   *)
(* row terminator "\\".  No pattern of the code can match across or inside *)
(* a token other than as the whole token, so matching on tokens is         *)
(* matching on characters.  Indices are 1-based (JS index + 1).            *)
(***************************************************************************)
EXTENDS Integers, Sequences, FiniteSets, TLC

NL == "\n"
SP == " "

\* ------------------------------------------------------------------------
\* String primitives (String.prototype.*), on token sequences
\* ------------------------------------------------------------------------

\* const name = value; ...: [name \in { value } |-> e] is what follows the
\* declaration, e, as a function of the value, and ValueOf gives e for it
ValueOf(f) == f[CHOOSE x \in DOMAIN f : TRUE]

IsWs(t) == t \in {SP, NL}

\* least and greatest member of a non-empty set of indices
MinOf(S) == CHOOSE i \in S : \A j \in S : i <= j
MaxOf(S) == CHOOSE i \in S : \A j \in S : i >= j

\* the same for a set that may be empty: 0 stands for the JS result -1
MinOrZero(S) == IF S = {} THEN 0 ELSE MinOf(S)
MaxOrZero(S) == IF S = {} THEN 0 ELSE MaxOf(S)

\* the k-th member of a set of indices, in increasing order
NthOf(S, k) == CHOOSE i \in S : Cardinality({ j \in S : j < i }) = k - 1

\* first index >= j whose token is in T (FirstIn) or is not in T (FirstNotIn),
\* Len(s) + 1 when there is none
FirstIn(s, j, T) == MinOf({ i \in j..Len(s) : s[i] \in T } \cup { Len(s) + 1 })

FirstNotIn(s, j, T) == MinOf({ i \in j..Len(s) : s[i] \notin T } \cup { Len(s) + 1 })

TrimStart(s) == SubSeq(s, FirstNotIn(s, 1, {SP, NL}), Len(s))

TrimEnd(s) == SubSeq(s, 1, MaxOrZero({ i \in 1..Len(s) : ~IsWs(s[i]) }))

Trim(s) == TrimEnd(TrimStart(s))

StartsWith(s, p) == Len(s) >= Len(p) /\ SubSeq(s, 1, Len(p)) = p

MatchAt(s, i, p) == i >= 1 /\ i + Len(p) - 1 <= Len(s) /\ SubSeq(s, i, i + Len(p) - 1) = p

\* first index >= from where p occurs in s, 0 when there is none
IndexOfFrom(s, p, from) ==
  MinOrZero({ i \in from..(Len(s) - Len(p) + 1) : MatchAt(s, i, p) })

\* last index <= from where p occurs in s, 0 when there is none
LastIndexOfFrom(s, p, from) == MaxOrZero({ i \in 1..from : MatchAt(s, i, p) })

\* s.split(sep) for a separator of one token: always at least one piece
Split(s, sep) ==
  ValueOf([hits \in { { i \in 1..Len(s) : MatchAt(s, i, sep) } } |->
    [k \in 1..(Cardinality(hits) + 1) |->
       SubSeq(s, IF k = 1 THEN 1 ELSE NthOf(hits, k - 1) + Len(sep),
                 IF k = Cardinality(hits) + 1 THEN Len(s) ELSE NthOf(hits, k) - 1)]])

\* parts.join(sep)
RECURSIVE Join(_, _)
Join(parts, sep) ==
  IF parts = <<>> THEN <<>>
  ELSE IF Len(parts) = 1 THEN parts[1]
  ELSE LET half == Len(parts) \div 2 IN
       Join(SubSeq(parts, 1, half), sep) \o sep
         \o Join(SubSeq(parts, half + 1, Len(parts)), sep)

\* number of occurrences of the token t in s
Count(s, t) == Cardinality({ k \in 1..Len(s) : s[k] = t })

\* s.replace(/\n/g, ' ')
ReplaceNewlines(s) == [k \in 1..Len(s) |-> IF s[k] = NL THEN SP ELSE s[k]]

\* ------------------------------------------------------------------------
\* Literals of the source
\* ------------------------------------------------------------------------

Env(cmd, name) == << cmd, "{", name, "}" >>
BeginDocument == Env("\\begin", "document")
EndDocument == Env("\\end", "document")
BeginItemize == Env("\\begin", "itemize")
EndItemize == Env("\\end", "itemize")
BeginEnumerate == Env("\\begin", "enumerate")
EndEnumerate == Env("\\end", "enumerate")
BeginTable == Env("\\begin", "table")
EndTable == Env("\\end", "table")
BeginTabular == Env("\\begin", "tabular")
EndTabular == Env("\\end", "tabular")
Hline == << "\\hline" >>
RowEnd == << "\\\\" >>
Item == << "\\item" >>

TextbfCmd == "\\textbf"
TextitCmd == "\\textit"

\* ------------------------------------------------------------------------
\* Tiptap nodes (TiptapNode): records; an optional field that is undefined
\* is a field the record does not have
\* ------------------------------------------------------------------------

Has(node, field) == field \in DOMAIN node

TextNode(text) == [type |-> "text", text |-> text]
MarkedText(text, marks) == [type |-> "text", text |-> text, marks |-> marks]
MathNode(type, latex) == [type |-> type, attrs |-> [latex |-> latex]]
EmptyText == TextNode(<<>>)

\* ------------------------------------------------------------------------
\* fromLatex: inline content
\* ------------------------------------------------------------------------

\* text.replace(/\\cmd\{([^}]+)\}/g, `<TAG>$1</TAG>`): one left-to-right pass
RECURSIVE ReplaceWrapped(_, _, _, _)
ReplaceWrapped(s, cmd, openTag, closeTag) ==
  IF s = <<>> THEN s ELSE
  ValueOf([p \in { IndexOfFrom(s, << cmd, "{" >>, 1) } |->
    IF p = 0 THEN s
    ELSE ValueOf([k \in { IndexOfFrom(s, << "}" >>, p + 2) } |->
      IF k >= p + 3
      THEN SubSeq(s, 1, p - 1) \o << openTag >> \o SubSeq(s, p + 2, k - 1) \o << closeTag >>
             \o ReplaceWrapped(SubSeq(s, k + 1, Len(s)), cmd, openTag, closeTag)
      ELSE SubSeq(s, 1, p) \o ReplaceWrapped(SubSeq(s, p + 1, Len(s)), cmd, openTag, closeTag)])])

parseFormatting(text) ==
  ValueOf([formatted \in { ReplaceWrapped(ReplaceWrapped(text, TextbfCmd, "<BOLD>", "</BOLD>"),
                      TextitCmd, "<ITALIC>", "</ITALIC>") } |->
         IF formatted # <<>> THEN << TextNode(formatted) >> ELSE <<>>])

Flush(current) == IF current # <<>> THEN parseFormatting(current) ELSE <<>>

\* while (j < text.length && text[j] !== '$') j++: the first "$" at or
\* after j, Len(text) + 1 when there is none
SeekDollar(text, j) == FirstIn(text, j, { "$" })

\* while (j < text.length - 1 && !(text[j] === '$' && text[j + 1] === '$')) j++:
\* j when it is at or past the last character, else the first "$$" at or
\* after j, Len(text) when there is none
SeekDollars(text, j) ==
  IF j >= Len(text) THEN j
  ELSE MinOf({ k \in j..(Len(text) - 1) : text[k] = "$" /\ text[k + 1] = "$" }
               \cup { Len(text) })

CharAt(text, i) == IF i >= 1 /\ i <= Len(text) THEN text[i] ELSE "undefined"

\* the scan index of parseInlineContent after the iteration at i: past the
\* closing delimiter when the math at i is closed, else past the one
\* character that goes to the plain run; the iterations of a run of
\* characters other than "$" are taken together, up to the next "$"
InlineNext(text, i) ==
  IF i > Len(text) THEN i
  ELSE IF text[i] # "$" THEN SeekDollar(text, i)
  ELSE IF CharAt(text, i + 1) # "$"
  THEN ValueOf([j \in { SeekDollar(text, i + 1) } |->
         IF j <= Len(text) THEN j + 1 ELSE i + 1])
  ELSE ValueOf([j \in { SeekDollars(text, i + 2) } |->
         IF j < Len(text) THEN j + 2 ELSE i + 1])

\* the while loop of parseInlineContent: i the scan index, current the
\* pending plain run, nodes the output so far.  The iterations at characters
\* other than "$" append them to current one by one, up to the next "$";
\* flushed is nodes after "if (current) nodes.push(...parseFormatting(current))"
RECURSIVE InlineLoop(_, _, _, _)
InlineLoop(text, i, current, nodes) ==
  IF i <= Len(text) /\ text[i] # "$"
  THEN ValueOf([d \in { InlineNext(text, i) } |->
         InlineLoop(text, d, current \o SubSeq(text, i, d - 1), nodes)])
  ELSE
    ValueOf([flushed \in { nodes \o Flush(current) } |->
      IF i > Len(text) THEN flushed
      ELSE IF CharAt(text, i + 1) # "$"
      THEN ValueOf([j \in { SeekDollar(text, i + 1) } |->
             IF j <= Len(text)
             THEN InlineLoop(text, InlineNext(text, i), <<>>,
                    flushed \o << MathNode("inlineMath", SubSeq(text, i + 1, j - 1)) >>)
             ELSE InlineLoop(text, InlineNext(text, i), << text[i] >>, flushed)])
      ELSE ValueOf([j \in { SeekDollars(text, i + 2) } |->
             IF j < Len(text)
             THEN InlineLoop(text, InlineNext(text, i), <<>>,
                    flushed \o << MathNode("blockMath", SubSeq(text, i + 2, j - 1)) >>)
             ELSE InlineLoop(text, InlineNext(text, i), << text[i] >>, flushed)])])

parseInlineContent(text) == InlineLoop(text, 1, <<>>, <<>>)

createParagraphNode(text) ==
  ValueOf([segments \in { parseInlineContent(text) } |->
    [type |-> "paragraph",
     content |-> IF Len(segments) > 0 THEN segments ELSE << EmptyText >>]])

createHeadingNode(text, level) ==
  [type |-> "heading", attrs |-> [level |-> level], content |-> << TextNode(text) >>]

\* text begins with command; the argument runs from the first "{" after the
\* command to the last "}" of the line
extractBraces(text, command) ==
  ValueOf([start \in { IndexOfFrom(text, << "{" >>, Len(command) + 1) } |->
    ValueOf([end \in { LastIndexOfFrom(text, << "}" >>, Len(text)) } |->
      IF start # 0 /\ end # 0
      THEN IF start + 1 <= end THEN SubSeq(text, start + 1, end - 1)
           ELSE SubSeq(text, end, start)
      ELSE <<>>])])

\* ------------------------------------------------------------------------
\* fromLatex: lists and tables.  lines is the array of source lines; an
\* index Len(lines) + 1 is the JS index lines.length
\* ------------------------------------------------------------------------

RECURSIVE ListLoop(_, _, _, _)
ListLoop(lines, i, endTag, items) ==
  IF i > Len(lines) THEN [items |-> items, endIndex |-> i]
  ELSE
    ValueOf([line \in { Trim(lines[i]) } |->
      IF StartsWith(line, endTag) THEN [items |-> items, endIndex |-> i]
      ELSE IF StartsWith(line, Item)
      THEN ListLoop(lines, i + 1, endTag,
             Append(items,
                    [type |-> "listItem",
                     content |-> << [type |-> "paragraph",
                                     content |->
                                       << TextNode(Trim(SubSeq(line, 2, Len(line)))) >>] >>]))
      ELSE ListLoop(lines, i + 1, endTag, items)])

\* a parseList that reports the line before the list as the end of its scan
parseList_Stuck(lines, startIndex, listType) ==
  ValueOf([r \in { ListLoop(lines, startIndex + 1,
                IF listType = "bulletList" THEN EndItemize ELSE EndEnumerate, <<>>) } |->
         [node |-> [type |-> listType, content |-> r.items], endIndex |-> startIndex - 1]])

parseList(lines, startIndex, listType) ==
  ValueOf([r \in { ListLoop(lines, startIndex + 1,
                IF listType = "bulletList" THEN EndItemize ELSE EndEnumerate, <<>>) } |->
         [node |-> [type |-> listType, content |-> r.items], endIndex |-> r.endIndex]])

\* first loop of parseTable: 0 stands for the JS index -1
RECURSIVE TableScan(_, _, _, _, _)
TableScan(lines, i, foundTabular, tabularStartIndex, tabularEndIndex) ==
  IF i > Len(lines)
  THEN [foundTabular |-> foundTabular, tabularStartIndex |-> tabularStartIndex,
        tabularEndIndex |-> tabularEndIndex, tableEndIndex |-> 0, i |-> i]
  ELSE
    ValueOf([line \in { Trim(lines[i]) } |->
      IF StartsWith(line, BeginTabular)
      THEN TableScan(lines, i + 1, TRUE, i, tabularEndIndex)
      ELSE IF StartsWith(line, EndTabular)
      THEN TableScan(lines, i + 1, foundTabular, tabularStartIndex, i)
      ELSE IF StartsWith(line, EndTable)
      THEN [foundTabular |-> foundTabular, tabularStartIndex |-> tabularStartIndex,
            tabularEndIndex |-> tabularEndIndex, tableEndIndex |-> i, i |-> i]
      ELSE TableScan(lines, i + 1, foundTabular, tabularStartIndex, tabularEndIndex)])

\* /\\command\{([^}]+)\}/ somewhere in s: [open |-> index of "{", close |->
\* index of "}"], open = 0 when there is no match
RECURSIVE BracedMatch(_, _, _)
BracedMatch(s, command, from) ==
  ValueOf([p \in { IndexOfFrom(s, command \o << "{" >>, from) } |->
    IF p = 0 THEN [open |-> 0, close |-> 0]
    ELSE ValueOf([close \in { IndexOfFrom(s, << "}" >>, p + Len(command) + 1) } |->
      IF close = 0 THEN [open |-> 0, close |-> 0]
      ELSE IF close >= p + Len(command) + 2 THEN [open |-> p + Len(command), close |-> close]
      ELSE BracedMatch(s, command, p + 1)])])

\* colSpec.split('|').filter(col => col.trim() !== '').length, 1 when 0
ColCountOf(colSpec) ==
  ValueOf([columns \in { SelectSeq(Split(colSpec, << "|" >>),
                                   LAMBDA col : Trim(col) # <<>>) } |->
    IF Len(columns) > 0 THEN Len(columns) ELSE 1])

\* trimmed.replace(/^\\hline\s*/, '').replace(/\s*\\hline$/, '')
StripHlines(trimmed) ==
  ValueOf([a \in { IF StartsWith(trimmed, Hline)
       THEN TrimStart(SubSeq(trimmed, 2, Len(trimmed))) ELSE trimmed } |->
         IF a # <<>> /\ a[Len(a)] = Hline[1]
         THEN TrimEnd(SubSeq(a, 1, Len(a) - 1)) ELSE a])

Max(a, b) == IF a >= b THEN a ELSE b

\* a row loop that tags the cells of every row as data cells
RowNode_AllData(cells, colCount, cellType) ==
  [type |-> "tableRow",
   content |->
     [j \in 1..Max(Len(cells), colCount) |->
        ValueOf([cellContent \in { parseInlineContent(IF j <= Len(cells) THEN cells[j]
                                                      ELSE <<>>) } |->
               [type |-> "tableCell",
                content |-> << [type |-> "paragraph",
                                content |-> IF Len(cellContent) > 0 THEN cellContent
                                            ELSE << EmptyText >>] >>]])]]

\* the cells the row loop creates for a source row: one for every j below
\* Math.max(cells.length, colCount), cells[j] || '' its text
RowNode(cells, colCount, cellType) ==
  [type |-> "tableRow",
   content |->
     [j \in 1..Max(Len(cells), colCount) |->
        ValueOf([cellContent \in { parseInlineContent(IF j <= Len(cells) THEN cells[j]
                                                      ELSE <<>>) } |->
               [type |-> cellType,
                content |-> << [type |-> "paragraph",
                                content |-> IF Len(cellContent) > 0 THEN cellContent
                                            ELSE << EmptyText >>] >>]])]]

\* the loop over rawRows; isFirstDataRow is rows = <<>>
RECURSIVE RowLoop(_, _, _)
RowLoop(rawRows, colCount, rows) ==
  IF rawRows = <<>> THEN rows
  ELSE
    ValueOf([trimmed \in { Trim(Head(rawRows)) } |->
      ValueOf([cleanRow \in { Trim(ReplaceNewlines(StripHlines(trimmed))) } |->
        ValueOf([split \in { Split(cleanRow, << "&" >>) } |->
          ValueOf([cells \in { [k \in 1..Len(split) |-> Trim(split[k])] } |->
            IF trimmed = <<>> \/ trimmed = Hline \/ cleanRow = <<>>
                 \/ (\A k \in 1..Len(cells) : cells[k] = <<>>)
            THEN RowLoop(Tail(rawRows), colCount, rows)
            ELSE RowLoop(Tail(rawRows), colCount,
                   Append(rows,
                          RowNode(cells, colCount,
                                  IF rows = <<>> THEN "tableHeader" ELSE "tableCell")))])])])])

\* the part of parseTable after the scan; found is node !== null
TableOf(lines, sc) ==
  ValueOf([tabularContent \in { Join(SubSeq(lines, sc.tabularStartIndex, sc.tabularEndIndex),
                                     << NL >>) } |->
    ValueOf([head \in { BracedMatch(tabularContent, BeginTabular, 1) } |->
      ValueOf([bodyEnd \in { LastIndexOfFrom(tabularContent, EndTabular, Len(tabularContent)) } |->
        IF head.open = 0 \/ bodyEnd <= head.close
        THEN [found |-> FALSE, endIndex |-> sc.tableEndIndex]
        ELSE
          ValueOf([rows \in { RowLoop(Split(SubSeq(tabularContent, head.close + 1, bodyEnd - 1),
                                            RowEnd),
                       ColCountOf(SubSeq(tabularContent, head.open + 1, head.close - 1)),
                       <<>>) } |->
                 IF Len(rows) = 0 THEN [found |-> FALSE, endIndex |-> sc.tableEndIndex]
                 ELSE [found |-> TRUE, node |-> [type |-> "table", content |-> rows],
                       endIndex |-> sc.tableEndIndex]])])])])

parseTable(lines, startIndex) ==
  ValueOf([sc \in { TableScan(lines, startIndex, FALSE, 0, 0) } |->
    IF ~sc.foundTabular \/ sc.tabularStartIndex = 0 \/ sc.tabularEndIndex = 0
         \/ sc.tableEndIndex = 0
    THEN [found |-> FALSE,
          endIndex |-> IF sc.tableEndIndex > 0 THEN sc.tableEndIndex ELSE sc.i]
    ELSE TableOf(lines, sc)])

\* ------------------------------------------------------------------------
\* fromLatex
\* ------------------------------------------------------------------------

\* /\\begin\{document\}([\s\S]*)\\end\{document\}/ and docMatch[1].trim()
DocumentBody(latexContent) ==
  ValueOf([b \in { IndexOfFrom(latexContent, BeginDocument, 1) } |->
    ValueOf([e \in { LastIndexOfFrom(latexContent, EndDocument, Len(latexContent)) } |->
      IF b # 0 /\ e >= b + Len(BeginDocument)
      THEN Trim(SubSeq(latexContent, b + Len(BeginDocument), e - 1))
      ELSE latexContent])])

\* nodes.push(createParagraphNode(currentParagraph.join(' '))) when the
\* buffer is not empty
FlushParagraph(nodes, currentParagraph) ==
  IF Len(currentParagraph) > 0
  THEN Append(nodes, createParagraphNode(Join(currentParagraph, << SP >>)))
  ELSE nodes

\* the level of the heading command a line starts with, 0 when with none
HeadingLevel(line) ==
  IF StartsWith(line, << "\\section", "{" >>) THEN 1
  ELSE IF StartsWith(line, << "\\subsection", "{" >>) THEN 2
  ELSE IF StartsWith(line, << "\\subsubsection", "{" >>) THEN 3
  ELSE 0

\* one iteration of the for loop of fromLatex on its variables i, nodes and
\* currentParagraph; flushed is nodes after the pending paragraph is pushed,
\* which every branch but the last does first
BlockStep(lines, loop) ==
  IF loop.i > Len(lines) THEN loop
  ELSE
    ValueOf([line \in { Trim(lines[loop.i]) } |->
      ValueOf([flushed \in { FlushParagraph(loop.nodes, loop.currentParagraph) } |->
        IF line = <<>>
        THEN [i |-> loop.i + 1, nodes |-> flushed, currentParagraph |-> <<>>]
        ELSE IF HeadingLevel(line) # 0
        THEN [i |-> loop.i + 1,
              nodes |-> Append(flushed,
                               createHeadingNode(extractBraces(line, << line[1] >>),
                                                 HeadingLevel(line))),
              currentParagraph |-> <<>>]
        ELSE IF StartsWith(line, BeginItemize) \/ StartsWith(line, BeginEnumerate)
        THEN ValueOf([listNode \in { parseList(lines, loop.i,
                            IF IndexOfFrom(line, << "itemize" >>, 1) # 0 THEN "bulletList"
                            ELSE "orderedList") } |->
                    [i |-> listNode.endIndex + 1, nodes |-> Append(flushed, listNode.node),
                     currentParagraph |-> <<>>]])
        ELSE IF StartsWith(line, BeginTable)
        THEN ValueOf([tableNode \in { parseTable(lines, loop.i) } |->
               [i |-> tableNode.endIndex + 1,
                nodes |-> IF tableNode.found THEN Append(flushed, tableNode.node)
                          ELSE flushed,
                currentParagraph |-> <<>>]])
        ELSE [i |-> loop.i + 1, nodes |-> loop.nodes,
              currentParagraph |-> Append(loop.currentParagraph, line)]])])

\* at most n iterations of the for loop: the first half of them, and the
\* rest when the loop has not ended by then
RECURSIVE BlockLoop(_, _, _)
BlockLoop(lines, loop, n) ==
  IF n <= 1 THEN BlockStep(lines, loop)
  ELSE ValueOf([half \in { BlockLoop(lines, loop, n \div 2) } |->
         IF half.i > Len(lines) THEN half
         ELSE BlockLoop(lines, half, n - n \div 2)])

\* a fromLatex that returns the nodes of the loop as they are
DocContent_NoFallback(nodes) == nodes

\* the content of the returned document for the nodes the loop produced
DocContent(nodes) == IF Len(nodes) > 0 THEN nodes ELSE << createParagraphNode(<<>>) >>

\* the loop has run to its end after one iteration for every line; then the
\* pending paragraph is pushed
fromLatex(latexContent) ==
  ValueOf([lines \in { Split(DocumentBody(latexContent), << NL >>) } |->
    ValueOf([loop \in { BlockLoop(lines, [i |-> 1, nodes |-> <<>>, currentParagraph |-> <<>>],
                   Len(lines)) } |->
           [type |-> "doc",
            content |-> DocContent(FlushParagraph(loop.nodes, loop.currentParagraph))]])])

\* ------------------------------------------------------------------------
\* toLatex
\* ------------------------------------------------------------------------

\* the command a mark wraps the text in
WrapMark(mark, text) ==
  CASE mark.type = "bold" -> << "\\textbf", "{" >> \o text \o << "}" >>
    [] mark.type = "italic" -> << "\\textit", "{" >> \o text \o << "}" >>
    [] mark.type = "underline" -> << "\\underline", "{" >> \o text \o << "}" >>
    [] mark.type = "code" -> << "\\texttt", "{" >> \o text \o << "}" >>
    [] mark.type = "strike" -> << "\\st", "{" >> \o text \o << "}" >>
    [] mark.type = "highlight" -> << "\\hl", "{" >> \o text \o << "}" >>
    [] mark.type = "link" ->
         << "\\href", "{" >>
           \o (IF Has(mark, "attrs") /\ Has(mark.attrs, "href") THEN mark.attrs.href ELSE <<>>)
           \o << "}", "{" >> \o text \o << "}" >>
    [] OTHER -> text

\* the loop over node.marks, in array order
RECURSIVE WrapMarks(_, _)
WrapMarks(marks, text) ==
  IF marks = <<>> THEN text ELSE WrapMarks(Tail(marks), WrapMark(Head(marks), text))

Truthy(node, field) == Has(node, field) /\ node[field] # <<>>

formatText(node) ==
  IF ~Truthy(node, "text") THEN <<>>
  ELSE IF Has(node, "marks") THEN WrapMarks(node.marks, node.text) ELSE node.text

LatexAttr(node) ==
  IF Has(node, "attrs") /\ Has(node.attrs, "latex") THEN node.attrs.latex ELSE <<>>

RECURSIVE extractText(_)
RECURSIVE ExtractAll(_)
\* node.content.map(child => this.extractText(child)).join('')
ExtractAll(content) ==
  IF content = <<>> THEN <<>>
  ELSE extractText(Head(content)) \o ExtractAll(Tail(content))

extractText(node) ==
  IF Truthy(node, "text") THEN formatText(node)
  ELSE IF Has(node, "content") THEN ExtractAll(node.content)
  ELSE IF node.type = "inlineMath" THEN << "$" >> \o LatexAttr(node) \o << "$" >>
  ELSE IF node.type = "blockMath" THEN << "$", "$" >> \o LatexAttr(node) \o << "$", "$" >>
  ELSE <<>>

\* row.content.map(...).filter(text => text !== '')
RowCells(row) ==
  SelectSeq([k \in 1..Len(row.content) |->
               IF row.content[k].type = "tableCell" \/ row.content[k].type = "tableHeader"
               THEN Trim(extractText(row.content[k])) ELSE <<>>],
            LAMBDA text : text # <<>>)

RowToLatex(row) ==
  IF row.type = "tableRow" /\ Has(row, "content")
  THEN ValueOf([cells \in { RowCells(row) } |->
         IF Len(cells) > 0
         THEN Join(cells, << SP, "&", SP >>) \o << SP >> \o RowEnd \o << NL >>
                \o Hline \o << NL >>
         ELSE <<>>])
  ELSE <<>>

RECURSIVE RowsToLatex(_)
RowsToLatex(rows) ==
  IF rows = <<>> THEN <<>> ELSE RowToLatex(Head(rows)) \o RowsToLatex(Tail(rows))

RECURSIVE Repeat(_, _)
Repeat(s, n) == IF n <= 0 THEN <<>> ELSE s \o Repeat(s, n - 1)

tableToLatex(node) ==
  IF ~Has(node, "content") \/ Len(node.content) = 0 THEN <<>>
  ELSE
    LET firstRow == node.content[1]
        colCount == IF Has(firstRow, "content") THEN Len(firstRow.content) ELSE 0
    IN BeginTable \o << "[", "h", "]", NL >>
       \o << "\\centering", NL >>
       \o BeginTabular \o << "{" >> \o Repeat(<< "|", "c" >>, colCount) \o << "|", "}", NL >>
       \o Hline \o << NL >>
       \o RowsToLatex(node.content)
       \o EndTabular \o << NL >>
       \o EndTable \o << NL, NL >>

HeadingCommand(node) ==
  LET level == IF Has(node, "attrs") /\ Has(node.attrs, "level") /\ node.attrs.level # 0
               THEN node.attrs.level ELSE 1
  IN IF level = 2 THEN "\\subsection"
     ELSE IF level = 3 THEN "\\subsubsection"
     ELSE "\\section"

Children(node) == IF Has(node, "content") THEN node.content ELSE <<>>

\* the begin and end lines of the environment a container node is written as
Environment(node) ==
  IF node.type = "bulletList" THEN "itemize"
  ELSE IF node.type = "orderedList" THEN "enumerate"
  ELSE "quote"

RECURSIVE nodeToLatex(_, _)
RECURSIVE NodesToLatex(_, _)
NodesToLatex(content, indent) ==
  IF content = <<>> THEN <<>>
  ELSE nodeToLatex(Head(content), indent) \o NodesToLatex(Tail(content), indent)

nodeToLatex(node, indent) ==
  IF node.type \in { "heading", "paragraph", "listItem" }
  THEN ValueOf([text \in { extractText(node) } |->
         CASE node.type = "heading" ->
                << HeadingCommand(node), "{" >> \o text \o << "}", NL, NL >>
           [] node.type = "paragraph" ->
                IF Trim(text) = <<>> THEN << NL >> ELSE text \o << NL, NL >>
           [] node.type = "listItem" ->
                indent \o Item \o << SP >> \o text \o << NL >>])
  ELSE
    CASE node.type \in { "bulletList", "orderedList", "blockquote" } ->
           Env("\\begin", Environment(node)) \o << NL >>
             \o NodesToLatex(Children(node), << SP, SP >>)
             \o Env("\\end", Environment(node)) \o << NL, NL >>
      [] node.type = "table" -> tableToLatex(node)
      [] node.type = "inlineMath" -> << "$" >> \o LatexAttr(node) \o << "$" >>
      [] node.type = "blockMath" -> << "$", "$" >> \o LatexAttr(node) \o << "$", "$", NL, NL >>
      [] node.type = "text" -> formatText(node)
      [] node.type = "hardBreak" -> RowEnd \o << NL >>
      [] OTHER -> <<>>

Preamble ==
  << "\\documentclass", "{", "article", "}", NL,
     "\\usepackage", "{", "amsmath", "}", NL,
     "\\usepackage", "{", "hyperref", "}", NL,
     "\\usepackage", "{", "soul", "}", NL,
     "\\usepackage", "{", "xcolor", "}", NL >>

\* a toLatex that returns nothing for a document with no content field
toLatex_Bare(doc) ==
  IF ~Has(doc, "content") THEN <<>>
  ELSE Preamble \o BeginDocument \o << NL, NL >>
         \o NodesToLatex(Children(doc), <<>>)
         \o EndDocument \o << NL >>

toLatex(doc) ==
  Preamble \o BeginDocument \o << NL, NL >>
    \o NodesToLatex(Children(doc), <<>>)
    \o EndDocument \o << NL >>

\* ------------------------------------------------------------------------
\* LatexRenderer: the stages of processDocument.  An HTML tag the renderer
\* writes is one token.
\* ------------------------------------------------------------------------

\* content.replace(/%.*/g, ''): from a "%" to the end of its line
StripComments(s) ==
  ValueOf([lines \in { Split(s, << NL >>) } |->
    Join([k \in 1..Len(lines) |->
            SubSeq(lines[k], 1, FirstIn(lines[k], 1, { "%" }) - 1)],
         << NL >>)])

\* docMatch[1] of the renderer, not trimmed
RenderBody(content) ==
  ValueOf([b \in { IndexOfFrom(content, BeginDocument, 1) } |->
    ValueOf([e \in { LastIndexOfFrom(content, EndDocument, Len(content)) } |->
      IF b # 0 /\ e >= b + Len(BeginDocument)
      THEN SubSeq(content, b + Len(BeginDocument), e - 1)
      ELSE content])])

processSections(content) ==
  ReplaceWrapped(
    ReplaceWrapped(
      ReplaceWrapped(content, "\\section", "<h1>", "</h1>"),
      "\\subsection", "<h2>", "</h2>"),
    "\\subsubsection", "<h3>", "</h3>")

\* div.textContent = text; div.innerHTML
escapeHtml(text) ==
  [k \in 1..Len(text) |->
     IF text[k] = "&" THEN "&amp;"
     ELSE IF text[k] = "<" THEN "&lt;"
     ELSE IF text[k] = ">" THEN "&gt;"
     ELSE text[k]]

\* katex.renderToString(math.trim(), {displayMode, throwOnError: false, ...}).
\* katex is the typesetter of the run: fails is the set of expressions it
\* cannot typeset, and throws tells whether it then raises an exception or,
\* for a parse error under throwOnError: false, returns its own error markup
KatexRender(math, displayMode, katex) ==
  IF math \in katex.fails
  THEN IF katex.throws
       THEN [threw |-> TRUE, html |-> <<>>]
       ELSE [threw |-> FALSE,
             html |-> << "<span class=\"katex-error\" title=\"ParseError\">" >>
                        \o math \o << "</span>" >>]
  ELSE [threw |-> FALSE,
        html |-> << IF displayMode THEN "<span class=\"katex-display\">"
                    ELSE "<span class=\"katex\">" >>
                   \o math \o << "</span>" >>]

\* renderMath: try { return katex.renderToString(math.trim(), ...) }
\* catch { error span }
renderMath(math, displayMode, katex) ==
  ValueOf([r \in { KatexRender(Trim(math), displayMode, katex) } |->
    IF r.threw
    THEN << "<span class=\"katex-error\" style=\"color: red;\">" >> \o escapeHtml(math)
           \o << "</span>" >>
    ELSE r.html])

\* content.replace(/OPEN([\s\S]*?)CLOSE/g, renderMath), open and close
\* delimiters being token sequences
RECURSIVE ReplaceDelimited(_, _, _, _, _)
ReplaceDelimited(s, open, close, displayMode, katex) ==
  IF s = <<>> THEN s ELSE
  ValueOf([p \in { IndexOfFrom(s, open, 1) } |->
    IF p = 0 THEN s
    ELSE ValueOf([k \in { IndexOfFrom(s, close, p + Len(open)) } |->
      IF k = 0 THEN s
      ELSE SubSeq(s, 1, p - 1)
             \o renderMath(SubSeq(s, p + Len(open), k - 1), displayMode, katex)
             \o ReplaceDelimited(SubSeq(s, k + Len(close), Len(s)), open, close,
                                 displayMode, katex)])])

\* content.replace(/\$([^\$\n]+?)\$/g, renderMath)
RECURSIVE ReplaceInlineDollar(_, _)
ReplaceInlineDollar(s, katex) ==
  IF s = <<>> THEN s ELSE
  ValueOf([p \in { IndexOfFrom(s, << "$" >>, 1) } |->
    IF p = 0 THEN s
    ELSE ValueOf([k \in { FirstIn(s, p + 1, { "$", NL }) } |->
      IF k <= Len(s) /\ s[k] = "$" /\ k >= p + 2
      THEN SubSeq(s, 1, p - 1) \o renderMath(SubSeq(s, p + 1, k - 1), FALSE, katex)
             \o ReplaceInlineDollar(SubSeq(s, k + 1, Len(s)), katex)
      ELSE SubSeq(s, 1, p) \o ReplaceInlineDollar(SubSeq(s, p + 1, Len(s)), katex)])])

processMath(content, katex) ==
  ReplaceDelimited(
    ReplaceInlineDollar(
      ReplaceDelimited(
        ReplaceDelimited(content, << "$", "$" >>, << "$", "$" >>, TRUE, katex),
        << "\\[" >>, << "\\]" >>, TRUE, katex),
      katex),
    << "\\(" >>, << "\\)" >>, FALSE, katex)

\* the five command replacements, then content.replace(/\\\\/g, '<br>')
processFormatting(content) ==
  ValueOf([f \in { ReplaceWrapped(
         ReplaceWrapped(
           ReplaceWrapped(
             ReplaceWrapped(
               ReplaceWrapped(content, TextbfCmd, "<strong>", "</strong>"),
               TextitCmd, "<em>", "</em>"),
             "\\emph", "<em>", "</em>"),
           "\\underline", "<u>", "</u>"),
         "\\texttt", "<code>", "</code>") } |->
    [k \in 1..Len(f) |-> IF f[k] = RowEnd[1] THEN "<br>" ELSE f[k]]])

\* the last newline of the whitespace run that starts at the newline k
LastNewlineOfRun(s, k) ==
  MaxOf({ i \in (k + 1)..(FirstNotIn(s, k + 1, {SP, NL}) - 1) : s[i] = NL } \cup { k })

\* content.split(/\n\s*\n/): k is the first newline whose whitespace run
\* holds another newline
RECURSIVE SplitParagraphs(_)
SplitParagraphs(s) ==
  ValueOf([k \in { MinOrZero({ k \in 1..Len(s) : s[k] = NL /\ LastNewlineOfRun(s, k) > k }) } |->
         IF k = 0 THEN << s >>
         ELSE << SubSeq(s, 1, k - 1) >>
                \o SplitParagraphs(SubSeq(s, LastNewlineOfRun(s, k) + 1, Len(s)))])

\* the tags /^<(h[1-6]|ul|ol|pre|div|table)/ matches
TableWrapperTag == "<div class=\"latex-table-wrapper\">"
TableTag == "<table class=\"latex-table\">"
CenterTag == "<div style=\"text-align: center;\">"
DocumentTag == "<div class=\"latex-document\">"
BlockTags == { "<h1>", "<h2>", "<h3>", "<ul>", "<ol>", "<pre>", TableWrapperTag, TableTag,
               CenterTag, DocumentTag }

WrapParagraph(p) ==
  ValueOf([t \in { Trim(p) } |->
    IF t = <<>> THEN <<>>
    ELSE IF t[1] \in BlockTags THEN t
    ELSE << "<p>" >> \o t \o << "</p>" >>])

processParagraphs(content) ==
  ValueOf([paragraphs \in { SplitParagraphs(content) } |->
    Join([k \in 1..Len(paragraphs) |-> WrapParagraph(paragraphs[k])], << NL >>)])

\* ------------------------------------------------------------------------
\* LatexRenderer: environments and tables
\* ------------------------------------------------------------------------

\* the first \item followed by whitespace at or after from, 0 when none
RECURSIVE NextItem(_, _)
NextItem(s, from) ==
  ValueOf([p \in { IndexOfFrom(s, Item, from) } |->
    IF p = 0 \/ p = Len(s) THEN 0
    ELSE IF IsWs(s[p + 1]) THEN p ELSE NextItem(s, p + 1)])

\* items.replace(/\\item\s+([^\n]*)/g, '<li>$1</li>')
RECURSIVE ReplaceItems(_)
ReplaceItems(s) ==
  IF s = <<>> THEN s ELSE
  ValueOf([p \in { NextItem(s, 1) } |->
    IF p = 0 THEN s
    ELSE ValueOf([a \in { FirstNotIn(s, p + 1, {SP, NL}) } |->
      ValueOf([e \in { FirstIn(s, a, { NL }) } |->
        SubSeq(s, 1, p - 1) \o << "<li>" >> \o SubSeq(s, a, e - 1) \o << "</li>" >>
          \o ReplaceItems(SubSeq(s, e, Len(s)))])])])

\* content.replace(/\\begin\{env\}([\s\S]*?)\\end\{env\}/g, ...): the body is
\* passed through ReplaceItems for a list, and put between open and close
RECURSIVE ReplaceEnvironment(_, _, _, _, _)
ReplaceEnvironment(s, name, open, close, isList) ==
  IF s = <<>> THEN s ELSE
  ValueOf([p \in { IndexOfFrom(s, Env("\\begin", name), 1) } |->
    IF p = 0 THEN s
    ELSE ValueOf([k \in { IndexOfFrom(s, Env("\\end", name), p + 4) } |->
      IF k = 0 THEN s
      ELSE SubSeq(s, 1, p - 1) \o open
             \o (IF isList THEN ReplaceItems(SubSeq(s, p + 4, k - 1))
                 ELSE SubSeq(s, p + 4, k - 1))
             \o close
             \o ReplaceEnvironment(SubSeq(s, k + 4, Len(s)), name, open, close, isList)])])

AlignLetters == { "l", "c", "r", "p", "m", "b" }

\* the loop over the characters of columnSpec: columns so far, currentCol
RECURSIVE ColumnsLoop(_, _, _)
ColumnsLoop(columnSpec, columns, currentCol) ==
  IF columnSpec = <<>>
  THEN IF currentCol # <<>> THEN Append(columns, currentCol) ELSE columns
  ELSE LET char == Head(columnSpec) IN
       IF char = "|"
       THEN ColumnsLoop(Tail(columnSpec),
                        IF currentCol # <<>> THEN Append(columns, currentCol) ELSE columns,
                        <<>>)
       ELSE IF char \in AlignLetters
       THEN ColumnsLoop(Tail(columnSpec), columns, Append(currentCol, char))
       ELSE ColumnsLoop(Tail(columnSpec), columns, currentCol)

\* the alignment entries of a column spec; center columns by the number of
\* "|" when it has no alignment letter
RenderColumns(columnSpec) ==
  ValueOf([columns \in { ColumnsLoop(columnSpec, <<>>, <<>>) } |->
    IF Len(columns) = 0
    THEN [k \in 1..Max(1, Count(columnSpec, "|") - 1) |-> << "c" >>]
    ELSE columns])

\* the cells of a line of the tabular body that is neither empty nor \hline:
\* isRowEnd, and the row after the cells of the line are pushed
RowLine(line, currentRowCells) ==
  ValueOf([stripped \in { StripHlines(line) } |->
    ValueOf([isRowEnd \in { stripped # <<>> /\ stripped[Len(stripped)] = RowEnd[1] } |->
      ValueOf([split \in { Split(IF isRowEnd THEN Trim(SubSeq(stripped, 1, Len(stripped) - 1))
                 ELSE stripped,
                 << "&" >>) } |->
             ValueOf([cells \in { [k \in 1..Len(split) |-> Trim(split[k])] } |->
               [isRowEnd |-> isRowEnd,
                cells |-> IF \E k \in 1..Len(cells) : cells[k] # <<>>
                          THEN currentRowCells \o cells ELSE currentRowCells]])])])])

\* the loop over the lines of the tabular body
RECURSIVE RenderRowsLoop(_, _, _)
RenderRowsLoop(lines, rows, currentRowCells) ==
  IF lines = <<>>
  THEN IF Len(currentRowCells) > 0 THEN Append(rows, currentRowCells) ELSE rows
  ELSE
    ValueOf([line \in { Trim(Head(lines)) } |->
      IF line = <<>> \/ line = Hline
      THEN RenderRowsLoop(Tail(lines),
                          IF Len(currentRowCells) > 0 THEN Append(rows, currentRowCells)
                          ELSE rows,
                          <<>>)
      ELSE
        ValueOf([r \in { RowLine(line, currentRowCells) } |->
          IF r.isRowEnd /\ Len(r.cells) > 0
          THEN RenderRowsLoop(Tail(lines), Append(rows, r.cells), <<>>)
          ELSE RenderRowsLoop(Tail(lines), rows, r.cells)])])

RenderCell(cell, cellIndex, rowIndex, columns) ==
  LET align == IF cellIndex <= Len(columns) THEN columns[cellIndex]
               ELSE IF Len(columns) > 0 THEN columns[Len(columns)] ELSE << "c" >>
      alignment == IF \E k \in 1..Len(align) : align[k] = "l" THEN "left"
                   ELSE IF \E k \in 1..Len(align) : align[k] = "r" THEN "right"
                   ELSE "center"
      tag == IF rowIndex = 1 THEN "th" ELSE "td"
      \* `<${tag} style="text-align: ${alignment};">`
      cellOpen ==
        IF tag = "th"
        THEN (IF alignment = "left" THEN "<th style=\"text-align: left;\">"
              ELSE IF alignment = "right" THEN "<th style=\"text-align: right;\">"
              ELSE "<th style=\"text-align: center;\">")
        ELSE (IF alignment = "left" THEN "<td style=\"text-align: left;\">"
              ELSE IF alignment = "right" THEN "<td style=\"text-align: right;\">"
              ELSE "<td style=\"text-align: center;\">")
  IN << cellOpen >> \o processFormatting(IF cell # <<>> THEN cell ELSE << "&nbsp;" >>)
       \o << IF tag = "th" THEN "</th>" ELSE "</td>" >>

RECURSIVE RenderCells(_, _, _, _)
RenderCells(cells, cellIndex, rowIndex, columns) ==
  IF cellIndex > Len(cells) THEN <<>>
  ELSE RenderCell(cells[cellIndex], cellIndex, rowIndex, columns)
         \o RenderCells(cells, cellIndex + 1, rowIndex, columns)

RECURSIVE RenderTableRows(_, _, _)
RenderTableRows(rows, rowIndex, columns) ==
  IF rowIndex > Len(rows) THEN <<>>
  ELSE (IF \A k \in 1..Len(rows[rowIndex]) : rows[rowIndex][k] = <<>> THEN <<>>
        ELSE << "<tr>" >> \o RenderCells(rows[rowIndex], 1, rowIndex, columns) \o << "</tr>" >>)
       \o RenderTableRows(rows, rowIndex + 1, columns)

\* the replacement function of processTables for one table environment; head
\* and end are the match of
\* /\\begin\{tabular\}\{([^}]+)\}([\s\S]*?)\\end\{tabular\}/, cap the one of
\* /\\caption\{([^}]+)\}/
RenderTable(match, tableContent) ==
  ValueOf([head \in { BracedMatch(tableContent, BeginTabular, 1) } |->
    ValueOf([end \in { IF head.open = 0 THEN 0
         ELSE IndexOfFrom(tableContent, EndTabular, head.close + 1) } |->
      IF end = 0 THEN match
      ELSE
        ValueOf([cap \in { BracedMatch(tableContent, << "\\caption" >>, 1) } |->
          << TableWrapperTag, TableTag >>
            \o RenderTableRows(
                 RenderRowsLoop(Split(SubSeq(tableContent, head.close + 1, end - 1), << NL >>),
                                <<>>, <<>>),
                 1,
                 RenderColumns(SubSeq(tableContent, head.open + 1, head.close - 1)))
            \o << "</table>" >>
            \o (IF cap.open # 0
                THEN << "<div class=\"latex-table-caption\">" >>
                       \o escapeHtml(SubSeq(tableContent, cap.open + 1, cap.close - 1))
                       \o << "</div>" >>
                ELSE <<>>)
            \o << "</div>" >>])])])

\* (\[.*?\])? after \begin{table}: index of the nearest "]" on the line of a
\* "[" at j, 0 when the group matches nothing
PositionEnd(s, j) ==
  IF j <= Len(s) /\ s[j] = "["
  THEN ValueOf([k \in { IndexOfFrom(s, << "]" >>, j + 1) } |->
         IF k # 0 /\ k < FirstIn(s, j, { NL }) THEN k ELSE 0])
  ELSE 0

\* content.replace(/\\begin\{table\}(\[.*?\])?([\s\S]*?)\\end\{table\}/g, ...)
RECURSIVE processTables(_)
processTables(s) ==
  IF s = <<>> THEN s ELSE
  ValueOf([p \in { IndexOfFrom(s, BeginTable, 1) } |->
    IF p = 0 THEN s
    ELSE
      ValueOf([pos \in { PositionEnd(s, p + 4) } |->
        ValueOf([afterPos \in { IF pos # 0 THEN IndexOfFrom(s, EndTable, pos + 1) ELSE 0 } |->
          ValueOf([k \in { IF afterPos # 0 THEN afterPos ELSE IndexOfFrom(s, EndTable, p + 4) } |->
            IF k = 0 THEN s
            ELSE SubSeq(s, 1, p - 1)
                   \o RenderTable(SubSeq(s, p, k + 3),
                                  SubSeq(s, IF afterPos # 0 THEN pos + 1 ELSE p + 4, k - 1))
                   \o processTables(SubSeq(s, k + 4, Len(s)))])])])])

processEnvironments(content) ==
  processTables(
    ReplaceEnvironment(
      ReplaceEnvironment(
        ReplaceEnvironment(
          ReplaceEnvironment(content, "itemize", << "<ul>" >>, << "</ul>" >>, TRUE),
          "enumerate", << "<ol>" >>, << "</ol>" >>, TRUE),
        "verbatim", << "<pre>", "<code>" >>, << "</code>", "</pre>" >>, FALSE),
      "center", << CenterTag >>, << "</div>" >>, FALSE))

\* processDocument for a string
processDocument(content, katex) ==
  << DocumentTag >>
    \o processParagraphs(
         processFormatting(
           processMath(
             processEnvironments(processSections(RenderBody(StripComments(content)))),
             katex)))
    \o << "</div>" >>

renderError(message) ==
  << NL >> \o Repeat(<< SP >>, 6) \o << "<div class=\"latex-preview-error\">", NL >>
    \o Repeat(<< SP >>, 8) \o << "<strong>", "LaTeX Rendering Error:", "</strong>", "<br>", NL >>
    \o Repeat(<< SP >>, 8) \o escapeHtml(message) \o << NL >>
    \o Repeat(<< SP >>, 6) \o << "</div>", NL >> \o Repeat(<< SP >>, 4)

\* ------------------------------------------------------------------------
\* Inputs: LaTeX sources and editor trees
\* ------------------------------------------------------------------------

MaxBlocks == 2
MaxRows == 2
MaxCells == 2
MaxTreeRows == 2
MaxTreeCols == 2

SeqsUpTo(S, lo, hi) == UNION { [1..n -> S] : n \in lo..hi }

Lines(lines) == Join(lines, << NL >>)

Braced(cmd, arg) == << cmd, "{" >> \o arg \o << "}" >>

ColSpec2 == << "|", "c", "|", "c", "|" >>

TabularOpen(colSpec) == BeginTabular \o << "{" >> \o colSpec \o << "}" >>

SourceRow(cells) == Join(cells, << SP, "&", SP >>) \o << SP >> \o RowEnd

\* source blocks a document is assembled from, one or more lines each
SourceBlocks ==
  { <<>>,
    << "a" >>,
    << "b", SP, "$", "x", "$" >>,
    << "$", "$", "x", "$", "$" >>,
    << "$", "a" >>,
    Braced("\\section", << "a" >>),
    Braced("\\subsection", << "b" >>),
    Braced(TextbfCmd, << "a" >>),
    Braced(TextbfCmd, Braced(TextbfCmd, << "a" >>)),
    Lines(<< BeginItemize, Item \o << SP, "a" >>, Item \o << SP, "b" >>, EndItemize >>),
    Lines(<< BeginEnumerate, Item \o << SP, "a" >>, EndEnumerate >>),
    Lines(<< BeginItemize, Item \o << SP, "a" >> >>),
    Lines(<< BeginTable, TabularOpen(ColSpec2), SourceRow(<< << "a" >>, << "b" >> >>),
             EndTabular, EndTable >>),
    Lines(<< BeginTable, TabularOpen(ColSpec2), SourceRow(<< << "a" >>, << "b" >> >>),
             EndTabular >>),
    Lines(<< BeginTable, << "a" >>, EndTable >>),
    << "a", SP, "%", SP, "b" >>,
    BeginDocument,
    EndDocument }

BlockInputs == { Lines(blocks) : blocks \in SeqsUpTo(SourceBlocks, 0, MaxBlocks) }

CellTexts == { <<>>, << "a" >> }
ColSpecs == { << "|", "c", "|" >>, ColSpec2, << "c", "c" >> }
SourceRows == SeqsUpTo(CellTexts, 1, MaxCells)

RECURSIVE RowLines(_, _)
RowLines(rows, hlines) ==
  IF rows = <<>> THEN <<>>
  ELSE << SourceRow(Head(rows)) >> \o (IF hlines THEN << Hline >> ELSE <<>>)
         \o RowLines(Tail(rows), hlines)

TableSource(colSpec, rows, hlines) ==
  Lines(<< BeginTable, TabularOpen(colSpec) >>
        \o (IF hlines THEN << Hline >> ELSE <<>>)
        \o RowLines(rows, hlines)
        \o << EndTabular, EndTable >>)

\* tables whose first source row has empty cells only
SkippedRowTables ==
  { TableSource(ColSpec2, << << <<>>, <<>> >>, << << "a" >>, << "b" >> >>, row >>, hlines) :
      row \in SourceRows, hlines \in BOOLEAN }

TableInputs ==
  { TableSource(colSpec, rows, hlines) :
      colSpec \in ColSpecs, rows \in SeqsUpTo(SourceRows, 0, MaxRows),
      hlines \in BOOLEAN }
    \cup SkippedRowTables

\* a list whose first item goes on over a second line
ContinuedList ==
  Lines(<< BeginItemize, Item \o << SP, "a" >>, << "x" >>, Item \o << SP, "b" >>,
           EndItemize >>)

\* a "$" that nothing closes, with text before it
OpenDollar == << "a", SP, "$", SP, "b" >>

\* a "$$" that nothing closes, with text before it
OpenDollars == << "a", SP, "$", "$", SP, "b" >>

OtherSources == { ContinuedList, OpenDollar, OpenDollars }

SourceInputs == BlockInputs \cup TableInputs \cup OtherSources

\* trees as editor.getJSON() gives them: an empty paragraph has no content
EditorParagraph(inline) ==
  IF inline = <<>> THEN [type |-> "paragraph"]
  ELSE [type |-> "paragraph", content |-> inline]

PlainInline(text) == IF text = <<>> THEN <<>> ELSE << TextNode(text) >>

EditorCell(cellType, text) ==
  [type |-> cellType, content |-> << EditorParagraph(PlainInline(text)) >>]

EditorRow(cellType, texts) ==
  [type |-> "tableRow",
   content |-> [j \in 1..Len(texts) |-> EditorCell(cellType, texts[j])]]

\* header row first, data rows after
EditorTable(cellTexts) ==
  [type |-> "table",
   content |-> [r \in 1..Len(cellTexts) |->
                  EditorRow(IF r = 1 THEN "tableHeader" ELSE "tableCell", cellTexts[r])]]

EditorTables ==
  { EditorTable(cellTexts) :
      cellTexts \in UNION { [1..r -> [1..c -> CellTexts]] :
                              r \in 1..MaxTreeRows, c \in 1..MaxTreeCols } }

LinkMark == [type |-> "link", attrs |-> [href |-> << "u" >>]]

MarkSeqs ==
  { <<>>, << [type |-> "bold"] >>, << [type |-> "italic"] >>,
    << [type |-> "bold"], [type |-> "italic"] >>,
    << [type |-> "italic"], [type |-> "bold"] >>,
    << [type |-> "bold"], LinkMark >>,
    << LinkMark, [type |-> "bold"] >> }

HardBreak == [type |-> "hardBreak"]

\* inline content with a hard break between two Text nodes
BrokenInline == << TextNode(<< "a" >>), HardBreak, TextNode(<< "b" >>) >>

EditorParagraphs ==
  { EditorParagraph(<< MarkedText(<< "a" >>, marks) >>) : marks \in MarkSeqs }
    \cup { EditorParagraph(<<>>), EditorParagraph(BrokenInline) }

\* a heading, a list and a table with a hard break in their inline content
BrokenBlocks ==
  { [type |-> "heading", attrs |-> [level |-> 1], content |-> BrokenInline],
    [type |-> "bulletList",
     content |-> << [type |-> "listItem", content |-> << EditorParagraph(BrokenInline) >>] >>],
    [type |-> "table",
     content |-> << [type |-> "tableRow",
                     content |-> << [type |-> "tableHeader",
                                     content |-> << EditorParagraph(BrokenInline) >>] >>] >>] }

EditorDoc(nodes) == [type |-> "doc", content |-> nodes]

\* trees with an empty paragraph between two blocks, trees with no content
\* or no content field, and a tree with a node of a type the writer has no
\* case for
OtherTrees ==
  { EditorDoc(<< p, EditorParagraph(<<>>), q >>) :
      p, q \in { EditorParagraph(PlainInline(<< "a" >>)),
                 EditorTable(<< << << "a" >>, << "b" >> >> >>) } }
    \cup { EditorDoc(<< b >>) : b \in BrokenBlocks }
    \cup { [type |-> "doc"], EditorDoc(<<>>),
           EditorDoc(<< [type |-> "horizontalRule"],
                        EditorParagraph(PlainInline(<< "a" >>)) >>) }

EditorTrees ==
  { EditorDoc(<< t >>) : t \in EditorTables \cup EditorParagraphs }
    \cup { EditorDoc(<< p, t >>) : p \in EditorParagraphs, t \in EditorTables }
    \cup OtherTrees

\* ------------------------------------------------------------------------
\* Serializer round: a source is parsed, the tree written, the text parsed
\* again; or the round starts from a tree held by the editor
\* ------------------------------------------------------------------------

VARIABLES
  \* serializer round
  origin, pc, latexContent, doc, latex, doc2,
  \* WysiwygEditor
  initialContent,          \* the prop
  created,                 \* onCreate has run
  editorDoc,               \* editor.getJSON()
  skipOnChangeRef, isInitialMount, lastContentFromEditor,
  timeoutId,               \* the pending setTimeout callback of the sync effect
  setContentResult,        \* what the last editor.commands.setContent call did
  onChangeCalls,           \* the arguments onChange was called with
  userEdits,               \* number of update events raised by user edits
  \* LatexRenderer
  rendererOptions,         \* this.options
  typesetter,              \* the katex of the run: see KatexRender
  renderPc, renderInput,   \* the argument of the render call
  renderResult,            \* what the render call did
  \* DualModeEditor
  mode,                    \* the mode state
  dualContent,             \* the content state
  lastSourceContentRef,
  sourceDoc,               \* the document of the CodeMirror view, when mounted
  parentCalls,             \* the arguments the onChange prop was called with
  modeChanges,             \* number of handleModeChange calls
  \* useDebounce
  debounceInput,           \* the value argument of the last render
  delay,
  debouncedValue,
  handler,                 \* the timer of the effect
  stable,                  \* time since the value argument last changed
  inputChanges,            \* number of renders with another value
  mounted,
  \* LatexPreview
  pendingRenders,          \* the content of each renderContent call that awaits its timeout
  renderedHtml, previewError, isRendering,
  onErrorCalls             \* the arguments the onError prop was called with

serVars == << origin, pc, latexContent, doc, latex, doc2 >>

edVars == << initialContent, created, editorDoc, skipOnChangeRef, isInitialMount,
             lastContentFromEditor, timeoutId, setContentResult, onChangeCalls,
             userEdits >>

renVars == << rendererOptions, typesetter, renderPc, renderInput, renderResult >>

dualVars == << mode, dualContent, lastSourceContentRef, sourceDoc, parentCalls,
               modeChanges >>

debVars == << debounceInput, delay, debouncedValue, handler, stable, inputChanges,
              mounted >>

prevVars == << pendingRenders, renderedHtml, previewError, isRendering, onErrorCalls >>

hostVars == << dualVars, debVars, prevVars >>

vars == << serVars, edVars, renVars, hostVars >>

NoDoc == [type |-> "none"]

\* the editor useEditor creates without a content option
BlankDoc == [type |-> "doc", content |-> << [type |-> "paragraph"] >>]

\* no callback pending; a pending callback holds the initialContent of the
\* render that set it, and whether a change of the prop made the effect run
NoTimeout == [pending |-> FALSE, initialContent |-> <<>>, propChanged |-> FALSE]

SerializerIdle ==
  /\ origin = "none" /\ pc = "idle" /\ latexContent = <<>>
  /\ doc = NoDoc /\ latex = <<>> /\ doc2 = NoDoc

EditorIdle ==
  /\ initialContent = <<>> /\ created = FALSE /\ editorDoc = NoDoc
  /\ skipOnChangeRef = FALSE /\ isInitialMount = TRUE
  /\ lastContentFromEditor = <<>> /\ timeoutId = NoTimeout
  /\ setContentResult = "none" /\ onChangeCalls = <<>> /\ userEdits = 0

NoOptions == [none |-> TRUE]
NoTypesetter == [fails |-> {}, throws |-> FALSE]
NoInput == [isString |-> FALSE]
NoResult == [outcome |-> "none"]

RendererIdle ==
  /\ rendererOptions = NoOptions /\ typesetter = NoTypesetter
  /\ renderPc = "idle" /\ renderInput = NoInput /\ renderResult = NoResult

NoTimer == [pending |-> FALSE, value |-> <<>>, elapsed |-> 0]

\* no CodeMirror view is mounted
NoView == [mounted |-> FALSE, text |-> <<>>]

DualIdle ==
  /\ mode = "none" /\ dualContent = <<>> /\ lastSourceContentRef = <<>>
  /\ sourceDoc = NoView /\ parentCalls = <<>> /\ modeChanges = 0

DebounceIdle ==
  /\ debounceInput = <<>> /\ delay = 0 /\ debouncedValue = <<>> /\ handler = NoTimer
  /\ stable = 0 /\ inputChanges = 0 /\ mounted = FALSE

PreviewIdle ==
  /\ pendingRenders = <<>> /\ renderedHtml = <<>> /\ previewError = NoResult
  /\ isRendering = FALSE /\ onErrorCalls = <<>>

HostIdle == DualIdle /\ DebounceIdle /\ PreviewIdle

Init ==
  /\ EditorIdle
  /\ RendererIdle
  /\ HostIdle
  /\ doc2 = NoDoc
  /\ latex = <<>>
  /\ \/ /\ origin = "source"
        /\ pc = "source"
        /\ latexContent \in SourceInputs
        /\ doc = NoDoc
     \/ /\ origin = "editor"
        /\ pc = "tree"
        /\ latexContent = <<>>
        /\ doc \in EditorTrees

Parse ==
  /\ pc = "source"
  /\ doc' = fromLatex(latexContent)
  /\ pc' = "tree"
  /\ UNCHANGED << origin, latexContent, latex, doc2, edVars, renVars, hostVars >>

Write ==
  /\ pc = "tree"
  /\ latex' = toLatex(doc)
  /\ pc' = "written"
  /\ UNCHANGED << origin, latexContent, doc, doc2, edVars, renVars, hostVars >>

Reparse ==
  /\ pc = "written"
  /\ doc2' = fromLatex(latex)
  /\ pc' = "reparsed"
  /\ UNCHANGED << origin, latexContent, doc, latex, edVars, renVars, hostVars >>

Next == Parse \/ Write \/ Reparse

Spec == Init /\ [][Next]_vars

\* ------------------------------------------------------------------------
\* WysiwygEditor: onCreate, onUpdate, the sync effect and its timeout
\* ------------------------------------------------------------------------

MaxEdits == 2

\* what editor.commands.setContent can do: replace the document and raise an
\* update event, replace it without an update event, or throw
SetContentResults == { "updated", "silent", "threw" }

EditTrees ==
  { EditorDoc(<< EditorParagraph(PlainInline(<< "a" >>)) >>),
    EditorDoc(<< EditorParagraph(PlainInline(<< "b" >>)) >>),
    EditorDoc(<< EditorTable(<< << << "a" >>, <<>> >>, << <<>>, << "b" >> >> >>) >>) }

\* values the parent passes as initialContent: sources of its own and the
\* texts the editor emitted
PropValues ==
  { <<>>, << "a" >>, Braced("\\section", << "b" >>) } \cup { toLatex(t) : t \in EditTrees }

\* an onUpdate that does not look at skipOnChangeRef
onUpdate_NoSkip(skip, last, calls, newDoc) ==
  ValueOf([text \in { toLatex(newDoc) } |->
    [skipOnChangeRef |-> skip, lastContentFromEditor |-> text,
     onChangeCalls |-> Append(calls, text)]])

\* onUpdate, for the update event of a document change
onUpdate(skip, last, calls, newDoc) ==
  IF skip
  THEN [skipOnChangeRef |-> FALSE, lastContentFromEditor |-> last, onChangeCalls |-> calls]
  ELSE ValueOf([text \in { toLatex(newDoc) } |->
         [skipOnChangeRef |-> FALSE, lastContentFromEditor |-> text,
          onChangeCalls |-> Append(calls, text)]])

\* skipOnChangeRef.current = true; editor.commands.setContent(tiptapContent)
\* with the onUpdate call the update event makes; the fields after the call
LoadContent(content, result) ==
  ValueOf([newDoc \in { fromLatex(content) } |->
    IF result = "threw"
    THEN [editorDoc |-> editorDoc, skipOnChangeRef |-> TRUE,
          lastContentFromEditor |-> lastContentFromEditor, onChangeCalls |-> onChangeCalls]
    ELSE IF result = "updated"
    THEN ValueOf([u \in { onUpdate(TRUE, lastContentFromEditor, onChangeCalls, newDoc) } |->
           [editorDoc |-> newDoc, skipOnChangeRef |-> u.skipOnChangeRef,
            lastContentFromEditor |-> content, onChangeCalls |-> u.onChangeCalls]])
    ELSE [editorDoc |-> newDoc, skipOnChangeRef |-> TRUE,
          lastContentFromEditor |-> content, onChangeCalls |-> onChangeCalls]])

InitEditor ==
  /\ SerializerIdle
  /\ RendererIdle
  /\ HostIdle
  /\ initialContent \in PropValues
  /\ created = FALSE
  /\ editorDoc = BlankDoc
  /\ skipOnChangeRef = FALSE
  /\ isInitialMount = TRUE
  /\ lastContentFromEditor = <<>>
  /\ timeoutId = [pending |-> TRUE, initialContent |-> initialContent, propChanged |-> FALSE]
  /\ setContentResult = "none"
  /\ onChangeCalls = <<>>
  /\ userEdits = 0

\* onCreate; setContent outside a try block does not throw here
OnCreate(result) ==
  /\ ~created
  /\ created' = TRUE
  /\ IF initialContent # <<>>
     THEN \E r \in { LoadContent(initialContent, result) } :
          /\ editorDoc' = r.editorDoc
          /\ skipOnChangeRef' = r.skipOnChangeRef
          /\ lastContentFromEditor' = r.lastContentFromEditor
          /\ onChangeCalls' = r.onChangeCalls
          /\ isInitialMount' = FALSE
          /\ setContentResult' = result
     ELSE UNCHANGED << editorDoc, skipOnChangeRef, lastContentFromEditor, onChangeCalls,
                       isInitialMount, setContentResult >>
  /\ UNCHANGED << initialContent, timeoutId, userEdits, serVars, renVars, hostVars >>

\* the user changes the document; the editor raises an update event
UserEdit(tree) ==
  /\ created
  /\ userEdits < MaxEdits
  /\ tree # editorDoc
  /\ editorDoc' = tree
  /\ userEdits' = userEdits + 1
  /\ \E u \in { onUpdate(skipOnChangeRef, lastContentFromEditor, onChangeCalls, tree) } :
     /\ skipOnChangeRef' = u.skipOnChangeRef
     /\ lastContentFromEditor' = u.lastContentFromEditor
     /\ onChangeCalls' = u.onChangeCalls
  /\ UNCHANGED << initialContent, created, isInitialMount, timeoutId, setContentResult,
                  serVars, renVars, hostVars >>

\* the parent renders the component with another initialContent: the effect
\* clears the pending timeout and sets a new one
SetProp(value) ==
  /\ created
  /\ value # initialContent
  /\ initialContent' = value
  /\ timeoutId' = [pending |-> TRUE, initialContent |-> value, propChanged |-> TRUE]
  /\ UNCHANGED << created, editorDoc, skipOnChangeRef, isInitialMount,
                  lastContentFromEditor, setContentResult, onChangeCalls, userEdits,
                  serVars, renVars, hostVars >>

\* the callback of the effect refuses to load content
SyncSkips(content) ==
  \/ isInitialMount
  \/ lastContentFromEditor = content
  \/ toLatex(editorDoc) = content

\* the setTimeout callback of the sync effect
TimeoutFires(result) ==
  /\ timeoutId.pending
  /\ timeoutId' = NoTimeout
  /\ IF SyncSkips(timeoutId.initialContent)
     THEN /\ setContentResult' = "none"
          /\ UNCHANGED << editorDoc, skipOnChangeRef, lastContentFromEditor, onChangeCalls >>
     ELSE \E r \in { LoadContent(timeoutId.initialContent, result) } :
          /\ editorDoc' = r.editorDoc
          /\ skipOnChangeRef' = r.skipOnChangeRef
          /\ lastContentFromEditor' = r.lastContentFromEditor
          /\ onChangeCalls' = r.onChangeCalls
          /\ setContentResult' = result
  /\ UNCHANGED << initialContent, created, isInitialMount, userEdits, serVars, renVars, hostVars >>

NextEditor ==
  \/ \E result \in SetContentResults \ { "threw" } : OnCreate(result)
  \/ \E tree \in EditTrees : UserEdit(tree)
  \/ \E value \in PropValues : SetProp(value)
  \/ \E result \in SetContentResults : TimeoutFires(result)

SpecEditor == InitEditor /\ [][NextEditor]_vars

\* ------------------------------------------------------------------------
\* DualModeEditor: the mode toggle over a LatexEditor and a WysiwygEditor
\* that share the content state
\* ------------------------------------------------------------------------

MaxToggles == 3

\* the WysiwygEditor element is mounted with initialContent = text
MountWysiwyg(text) ==
  /\ initialContent' = text
  /\ created' = FALSE
  /\ editorDoc' = BlankDoc
  /\ skipOnChangeRef' = FALSE
  /\ isInitialMount' = TRUE
  /\ lastContentFromEditor' = <<>>
  /\ timeoutId' = [pending |-> TRUE, initialContent |-> text, propChanged |-> FALSE]
  /\ setContentResult' = "none"
  /\ onChangeCalls' = <<>>

\* the WysiwygEditor element is removed; the cleanup of its effect clears
\* the timeout
UnmountWysiwyg ==
  /\ initialContent' = <<>>
  /\ created' = FALSE
  /\ editorDoc' = NoDoc
  /\ skipOnChangeRef' = FALSE
  /\ isInitialMount' = TRUE
  /\ lastContentFromEditor' = <<>>
  /\ timeoutId' = NoTimeout
  /\ setContentResult' = "none"
  /\ onChangeCalls' = <<>>

InitDual ==
  /\ SerializerIdle
  /\ RendererIdle
  /\ DebounceIdle
  /\ PreviewIdle
  /\ mode \in { "source", "wysiwyg" }
  /\ dualContent \in PropValues
  /\ lastSourceContentRef = dualContent
  /\ parentCalls = <<>>
  /\ modeChanges = 0
  /\ userEdits = 0
  /\ IF mode = "source"
     THEN /\ sourceDoc = [mounted |-> TRUE, text |-> dualContent]
          /\ initialContent = <<>> /\ created = FALSE /\ editorDoc = NoDoc
          /\ skipOnChangeRef = FALSE /\ isInitialMount = TRUE
          /\ lastContentFromEditor = <<>> /\ timeoutId = NoTimeout
          /\ setContentResult = "none" /\ onChangeCalls = <<>>
     ELSE /\ sourceDoc = NoView
          /\ initialContent = dualContent /\ created = FALSE /\ editorDoc = BlankDoc
          /\ skipOnChangeRef = FALSE /\ isInitialMount = TRUE
          /\ lastContentFromEditor = <<>>
          /\ timeoutId = [pending |-> TRUE, initialContent |-> dualContent,
                          propChanged |-> FALSE]
          /\ setContentResult = "none" /\ onChangeCalls = <<>>

\* handleModeChange(newMode) and the render it causes; setMode with the
\* mode the state has causes none.  In source mode sourceEditorContent leaves
\* lastSourceContentRef equal to content
handleModeChange(newMode) ==
  /\ mode # newMode
  /\ modeChanges < MaxToggles
  /\ modeChanges' = modeChanges + 1
  /\ mode' = newMode
  /\ IF newMode = "source"
     THEN /\ UnmountWysiwyg
          /\ sourceDoc' = [mounted |-> TRUE, text |-> dualContent]
          /\ lastSourceContentRef' = dualContent
     ELSE /\ MountWysiwyg(dualContent)
          /\ sourceDoc' = NoView
          /\ UNCHANGED lastSourceContentRef
  /\ UNCHANGED << dualContent, parentCalls, userEdits, serVars, renVars, debVars, prevVars >>

\* handleContentChange for the calls the mounted WysiwygEditor made to its
\* onChange, and the render that passes content as initialContent: the sync
\* effect runs again when the prop changed; timeout is the timer otherwise
handleContentChange(calls, timeout) ==
  /\ parentCalls' = parentCalls \o SubSeq(calls, Len(onChangeCalls) + 1, Len(calls))
  /\ \E text \in { IF Len(calls) > Len(onChangeCalls) THEN calls[Len(calls)]
                   ELSE dualContent } :
       /\ dualContent' = text
       /\ initialContent' = text
       /\ timeoutId' = IF text # initialContent
                       THEN [pending |-> TRUE, initialContent |-> text, propChanged |-> TRUE]
                       ELSE timeout
  /\ UNCHANGED << mode, lastSourceContentRef, sourceDoc, modeChanges >>

\* the user changes the text of the CodeMirror view: its update listener
\* calls onChange, which is handleContentChange in source mode
SourceEdit(text) ==
  /\ mode = "source"
  /\ userEdits < MaxEdits
  /\ text # sourceDoc.text
  /\ userEdits' = userEdits + 1
  /\ sourceDoc' = [mounted |-> TRUE, text |-> text]
  /\ lastSourceContentRef' = text
  /\ dualContent' = text
  /\ parentCalls' = Append(parentCalls, text)
  /\ UNCHANGED << mode, modeChanges, initialContent, created, editorDoc, skipOnChangeRef,
                  isInitialMount, lastContentFromEditor, timeoutId, setContentResult,
                  onChangeCalls, serVars, renVars, debVars, prevVars >>

\* onCreate of the mounted WysiwygEditor
DualOnCreate(result) ==
  /\ mode = "wysiwyg"
  /\ ~created
  /\ created' = TRUE
  /\ IF initialContent # <<>>
     THEN \E r \in { LoadContent(initialContent, result) } :
          /\ editorDoc' = r.editorDoc
          /\ skipOnChangeRef' = r.skipOnChangeRef
          /\ lastContentFromEditor' = r.lastContentFromEditor
          /\ onChangeCalls' = r.onChangeCalls
          /\ isInitialMount' = FALSE
          /\ setContentResult' = result
          /\ handleContentChange(r.onChangeCalls, timeoutId)
     ELSE UNCHANGED << editorDoc, skipOnChangeRef, lastContentFromEditor, onChangeCalls,
                       isInitialMount, setContentResult, initialContent, timeoutId,
                       dualVars >>
  /\ UNCHANGED << userEdits, serVars, renVars, debVars, prevVars >>

\* the user changes the document of the mounted WysiwygEditor
DualUserEdit(tree) ==
  /\ mode = "wysiwyg"
  /\ created
  /\ userEdits < MaxEdits
  /\ tree # editorDoc
  /\ editorDoc' = tree
  /\ userEdits' = userEdits + 1
  /\ \E u \in { onUpdate(skipOnChangeRef, lastContentFromEditor, onChangeCalls, tree) } :
     /\ skipOnChangeRef' = u.skipOnChangeRef
     /\ lastContentFromEditor' = u.lastContentFromEditor
     /\ onChangeCalls' = u.onChangeCalls
     /\ handleContentChange(u.onChangeCalls, timeoutId)
  /\ UNCHANGED << created, isInitialMount, setContentResult, serVars, renVars, debVars,
                  prevVars >>

\* the setTimeout callback of the sync effect of the mounted WysiwygEditor
DualTimeoutFires(result) ==
  /\ mode = "wysiwyg"
  /\ timeoutId.pending
  /\ IF SyncSkips(timeoutId.initialContent)
     THEN /\ setContentResult' = "none"
          /\ timeoutId' = NoTimeout
          /\ UNCHANGED << editorDoc, skipOnChangeRef, lastContentFromEditor, onChangeCalls,
                          initialContent, dualVars >>
     ELSE \E r \in { LoadContent(timeoutId.initialContent, result) } :
          /\ editorDoc' = r.editorDoc
          /\ skipOnChangeRef' = r.skipOnChangeRef
          /\ lastContentFromEditor' = r.lastContentFromEditor
          /\ onChangeCalls' = r.onChangeCalls
          /\ setContentResult' = result
          /\ handleContentChange(r.onChangeCalls, NoTimeout)
  /\ UNCHANGED << created, isInitialMount, userEdits, serVars, renVars, debVars, prevVars >>

NextDual ==
  \/ \E newMode \in { "source", "wysiwyg" } : handleModeChange(newMode)
  \/ \E text \in PropValues : SourceEdit(text)
  \/ \E result \in SetContentResults \ { "threw" } : DualOnCreate(result)
  \/ \E tree \in EditTrees : DualUserEdit(tree)
  \/ \E result \in SetContentResults : DualTimeoutFires(result)

SpecDual == InitDual /\ [][NextDual]_vars

\* ------------------------------------------------------------------------
\* useDebounce: the hook in a mounted component, its timer and the clock
\* ------------------------------------------------------------------------

MaxChanges == 3
MaxDelay == 2

DebounceValues == { << "a" >>, << "b" >>, << "c" >> }

\* the first render: useState(value), and the effect sets the timer
InitDebounce ==
  /\ SerializerIdle
  /\ EditorIdle
  /\ RendererIdle
  /\ DualIdle
  /\ PreviewIdle
  /\ mounted = TRUE
  /\ debounceInput \in DebounceValues
  /\ delay \in 1..MaxDelay
  /\ debouncedValue = debounceInput
  /\ handler = [pending |-> TRUE, value |-> debounceInput, elapsed |-> 0]
  /\ stable = 0
  /\ inputChanges = 0

\* a render with another value: the cleanup of the effect clears the timer
\* and the effect sets a new one
Rerender(v) ==
  /\ mounted
  /\ v # debounceInput
  /\ inputChanges < MaxChanges
  /\ inputChanges' = inputChanges + 1
  /\ debounceInput' = v
  /\ handler' = [pending |-> TRUE, value |-> v, elapsed |-> 0]
  /\ stable' = 0
  /\ UNCHANGED << delay, debouncedValue, mounted, serVars, edVars, renVars, dualVars,
                  prevVars >>

\* one unit of time passes; the clocks stop at delay
Tick ==
  /\ mounted
  /\ stable < delay \/ (handler.pending /\ handler.elapsed < delay)
  /\ stable' = IF stable < delay THEN stable + 1 ELSE stable
  /\ handler' = IF handler.pending /\ handler.elapsed < delay
                THEN [handler EXCEPT !.elapsed = @ + 1] ELSE handler
  /\ UNCHANGED << debounceInput, delay, debouncedValue, inputChanges, mounted, serVars,
                  edVars, renVars, dualVars, prevVars >>

\* a timer callback that runs before its delay has passed
DebounceTimerFires_Early ==
  /\ mounted
  /\ handler.pending
  /\ debouncedValue' = handler.value
  /\ handler' = NoTimer
  /\ UNCHANGED << debounceInput, delay, stable, inputChanges, mounted, serVars, edVars,
                  renVars, dualVars, prevVars >>

\* the setTimeout callback, delay after the timer was set or later:
\* setDebouncedValue(value)
DebounceTimerFires ==
  /\ mounted
  /\ handler.pending
  /\ handler.elapsed >= delay
  /\ debouncedValue' = handler.value
  /\ handler' = NoTimer
  /\ UNCHANGED << debounceInput, delay, stable, inputChanges, mounted, serVars, edVars,
                  renVars, dualVars, prevVars >>

\* the component is removed: the cleanup of the effect clears the timer
Unmount ==
  /\ mounted
  /\ mounted' = FALSE
  /\ handler' = NoTimer
  /\ UNCHANGED << debounceInput, delay, debouncedValue, stable, inputChanges, serVars,
                  edVars, renVars, dualVars, prevVars >>

NextDebounce ==
  \/ \E v \in DebounceValues : Rerender(v)
  \/ Tick
  \/ DebounceTimerFires
  \/ Unmount

\* time passes and a timer that is due runs its callback
SpecDebounce ==
  InitDebounce /\ [][NextDebounce]_vars /\ WF_vars(Tick) /\ WF_vars(DebounceTimerFires)

\* ------------------------------------------------------------------------
\* LatexRenderer: the constructor and the render call
\* ------------------------------------------------------------------------

MaxRenderBlocks == 2

\* { strict: false, throwOnError: false, macros: {}, ...options }; macros go
\* to the typesetter unread
DefaultOptions == [strict |-> FALSE, throwOnError |-> FALSE]

MergeOptions(options) ==
  [k \in DOMAIN DefaultOptions \cup DOMAIN options |->
     IF k \in DOMAIN options THEN options[k] ELSE DefaultOptions[k]]

\* the options argument of the constructor: any subset of the fields
GivenOptions ==
  { [k \in {} |-> TRUE] }
    \cup { [strict |-> b] : b \in BOOLEAN }
    \cup { [throwOnError |-> b] : b \in BOOLEAN }
    \cup [strict : BOOLEAN, throwOnError : BOOLEAN]

\* message of the TypeError content.replace raises for a value that is no string
NoStringMessage == << "content.replace is not a function" >>

\* a render whose catch block throws whatever the options say
render_Rethrow(content, options, katex) ==
  IF content.isString
  THEN [outcome |-> "returned", html |-> processDocument(content.text, katex)]
  ELSE [outcome |-> "threw", message |-> NoStringMessage]

\* try { return this.processDocument(latexContent) }
\* catch (error) { if (this.options.throwOnError) throw error; return this.renderError(error) }
render(content, options, katex) ==
  IF content.isString
  THEN [outcome |-> "returned", html |-> processDocument(content.text, katex)]
  ELSE IF options.throwOnError
       THEN [outcome |-> "threw", message |-> NoStringMessage]
       ELSE [outcome |-> "returned", html |-> renderError(NoStringMessage)]

RenderBlocks ==
  { << "a" >>,
    << "a", SP, "$", "x", "$", SP, "b" >>,
    << "$", "$", "y", "$", "$" >>,
    << "\\(", "x", "\\)" >>,
    << "$", "x" >>,
    << "a", SP, "%", SP, "$", "x", "$" >>,
    Braced("\\section", << "a" >>),
    Lines(<< BeginItemize, Item \o << SP, "a" >>, EndItemize >>),
    Lines(<< BeginItemize, Item \o << SP, "$", "y", "$" >> >>),
    Lines(<< BeginTable, TabularOpen(ColSpec2), SourceRow(<< << "a" >>, << "$", "x", "$" >> >>),
             EndTabular, EndTable >>) }

\* text on the line before a table environment
TextThenTable ==
  Lines(<< << "a" >>, BeginTable, TabularOpen(ColSpec2),
           SourceRow(<< << "a" >>, << "b" >> >>), EndTabular, EndTable >>)

\* a tabular environment outside any table environment
BareTabular ==
  Lines(<< TabularOpen(ColSpec2), SourceRow(<< << "a" >>, << "b" >> >>), EndTabular >>)

\* a list with a blank line between its two items
SpacedList ==
  Lines(<< BeginItemize, Item \o << SP, "a" >>, <<>>, Item \o << SP, "b" >>, EndItemize >>)

\* a verbatim environment holding a dollar-delimited span
VerbatimMath ==
  Lines(<< Env("\\begin", "verbatim"), << "$", "x", "$" >>, Env("\\end", "verbatim") >>)

OtherRenderTexts == { TextThenTable, BareTabular, SpacedList, VerbatimMath }

\* the values render is called with: strings, and a value that is no string
RenderInputs ==
  { [isString |-> TRUE, text |-> Join(blocks, << NL, NL >>)] :
      blocks \in SeqsUpTo(RenderBlocks, 0, MaxRenderBlocks) }
    \cup { [isString |-> TRUE, text |-> t] : t \in OtherRenderTexts }
    \cup { [isString |-> FALSE] }

MathExpressions == { << "x" >>, << "y" >> }

InitRender ==
  /\ SerializerIdle
  /\ EditorIdle
  /\ HostIdle
  /\ rendererOptions = NoOptions
  /\ typesetter \in [fails : SUBSET MathExpressions, throws : BOOLEAN]
  /\ renderPc = "new"
  /\ renderInput = NoInput
  /\ renderResult = NoResult

\* new LatexRenderer(options)
Construct(options) ==
  /\ renderPc = "new"
  /\ rendererOptions' = MergeOptions(options)
  /\ renderPc' = "ready"
  /\ UNCHANGED << typesetter, renderInput, renderResult, serVars, edVars, hostVars >>

\* renderer.render(latexContent)
Render(content) ==
  /\ renderPc = "ready"
  /\ renderInput' = content
  /\ renderResult' = render(content, rendererOptions, typesetter)
  /\ renderPc' = "done"
  /\ UNCHANGED << rendererOptions, typesetter, serVars, edVars, hostVars >>

NextRender ==
  \/ \E options \in GivenOptions : Construct(options)
  \/ \E content \in RenderInputs : Render(content)

SpecRender == InitRender /\ [][NextRender]_vars

\* ------------------------------------------------------------------------
\* LatexPreview: the render effect over a LatexRenderer of its own
\* ------------------------------------------------------------------------

MaxPendingRenders == 2

\* values of the content prop: strings, and a value that is no string
PreviewInputs ==
  { [isString |-> TRUE, text |-> << "a" >>],
    [isString |-> TRUE, text |-> << "a", SP, "$", "x", "$", SP, "b" >>],
    [isString |-> TRUE, text |-> << "$", "x" >>],
    [isString |-> FALSE] }

\* the first render: new LatexRenderer(), and the effect calls renderContent,
\* which runs to its await
InitPreview ==
  /\ SerializerIdle
  /\ EditorIdle
  /\ DualIdle
  /\ DebounceIdle
  /\ rendererOptions = MergeOptions([k \in {} |-> TRUE])
  /\ typesetter \in [fails : SUBSET MathExpressions, throws : BOOLEAN]
  /\ renderPc = "ready"
  /\ renderInput \in PreviewInputs
  /\ renderResult = NoResult
  /\ pendingRenders = << renderInput >>
  /\ renderedHtml = <<>>
  /\ previewError = NoResult
  /\ isRendering = TRUE
  /\ onErrorCalls = <<>>

\* a render with another content: the effect calls renderContent, which
\* runs to its await
PreviewContent(content) ==
  /\ content # renderInput
  /\ Len(pendingRenders) < MaxPendingRenders
  /\ renderInput' = content
  /\ pendingRenders' = Append(pendingRenders, content)
  /\ isRendering' = TRUE
  /\ previewError' = NoResult
  /\ UNCHANGED << rendererOptions, typesetter, renderPc, renderResult, renderedHtml,
                  onErrorCalls, serVars, edVars, dualVars, debVars >>

\* the oldest renderContent call goes on after its await: the try block,
\* its catch and finally
PreviewRender ==
  /\ pendingRenders # <<>>
  /\ pendingRenders' = Tail(pendingRenders)
  /\ isRendering' = FALSE
  /\ \E r \in { render(Head(pendingRenders), rendererOptions, typesetter) } :
       /\ renderResult' = r
       /\ IF r.outcome = "returned"
          THEN /\ renderedHtml' = r.html
               /\ UNCHANGED << previewError, onErrorCalls >>
          ELSE /\ previewError' = [outcome |-> "error", message |-> r.message]
               /\ onErrorCalls' = Append(onErrorCalls, r.message)
               /\ UNCHANGED renderedHtml
  /\ UNCHANGED << rendererOptions, typesetter, renderPc, renderInput, serVars, edVars,
                  dualVars, debVars >>

NextPreview ==
  \/ \E content \in PreviewInputs : PreviewContent(content)
  \/ PreviewRender

SpecPreview == InitPreview /\ [][NextPreview]_vars

\* ------------------------------------------------------------------------
\* Observations on trees and sources
\* ------------------------------------------------------------------------

NodesOfType(d, types) == SelectSeq(Children(d), LAMBDA n : n.type \in types)

TablesOf(d) == NodesOfType(d, { "table" })

\* the text of the Text nodes below a node, marks and math left out
RECURSIVE PlainText(_)
RECURSIVE PlainTextAll(_)
PlainTextAll(content) ==
  IF content = <<>> THEN <<>> ELSE PlainText(Head(content)) \o PlainTextAll(Tail(content))

PlainText(node) ==
  IF Has(node, "text") THEN node.text
  ELSE IF Has(node, "content") THEN PlainTextAll(node.content)
  ELSE <<>>

\* cell texts of a table, by row and column
CellMatrix(table) ==
  [r \in 1..Len(table.content) |->
     [c \in 1..Len(table.content[r].content) |-> PlainText(table.content[r].content[c])]]

CellMatrices(d) == [k \in 1..Len(TablesOf(d)) |-> CellMatrix(TablesOf(d)[k])]

Parsed == origin = "source" /\ pc # "source"

EmptyParagraph == [type |-> "paragraph", content |-> << EmptyText >>]

\* C1: a tree returned by fromLatex is returned again by
\* fromLatex(toLatex(tree)): same node types, order and text
C1_RoundTrip == (origin = "source" /\ pc = "reparsed") => doc2 = doc

\* C2: fromLatex returns a non-empty block sequence for every input, here
\* both for the source and for the text the writer produced; when the scan
\* produced no block the content is exactly one empty Paragraph
C2_TotalCoverage ==
  /\ Parsed =>
       /\ Len(doc.content) >= 1
       /\ ((\A k \in 1..Len(doc.content) :
              doc.content[k].type = "paragraph" /\ PlainText(doc.content[k]) = <<>>
                /\ NodesOfType(doc.content[k], { "inlineMath", "blockMath" }) = <<>>)
            => doc.content = << EmptyParagraph >>)
  /\ pc = "reparsed" => Len(doc2.content) >= 1

NoNodeInput == Lines(<< BeginTable, << "a" >>, EndTable >>)

C2_Witness ==
  /\ origin = "source" /\ pc = "tree"
  /\ latexContent \in { <<>>, << NL >>, NoNodeInput }
  /\ doc.content = << EmptyParagraph >>

\* C3: every row of every table fromLatex produces has as many cells as the
\* table's first row
C3_Rectangular ==
  Parsed =>
    \A k \in 1..Len(TablesOf(doc)) :
      LET rows == TablesOf(doc)[k].content IN
      \A r \in 1..Len(rows) : Len(rows[r].content) = Len(rows[1].content)

SourceLines(source) == Split(DocumentBody(source), << NL >>)

LinesStarting(source, prefixes) ==
  SelectSeq(SourceLines(source), LAMBDA l : \E p \in prefixes : StartsWith(Trim(l), p))

\* a source whose list and table environments all lack their end marker
\* or, for a table, the tabular sub-block
OnlyMalformed(source) ==
  /\ LinesStarting(source, { BeginItemize, BeginEnumerate, BeginTable }) # <<>>
  /\ LinesStarting(source, { EndItemize, EndEnumerate }) = <<>>
  /\ \/ LinesStarting(source, { EndTable }) = <<>>
     \/ LinesStarting(source, { BeginTabular }) = <<>>

Words == { "a", "b", "x" }

\* C4: a list without its end marker, a table without \end{table} and a
\* table without tabular become Paragraph text: no list or table node, every
\* word of the source is in a Paragraph or Heading of the result, and the
\* heading lines after the construct are Heading nodes
C4_MalformedDegrades ==
  (origin = "source" /\ pc = "tree" /\ OnlyMalformed(latexContent)) =>
    /\ NodesOfType(doc, { "bulletList", "orderedList", "table" }) = <<>>
    /\ \A w \in Words :
         Count(PlainTextAll(NodesOfType(doc, { "paragraph", "heading" })), w)
           = Count(DocumentBody(latexContent), w)
    /\ Len(NodesOfType(doc, { "heading" }))
         = Len(LinesStarting(latexContent,
                 { << "\\section", "{" >>, << "\\subsection", "{" >> }))

Rendered == renderPc = "done"

\* C5: a render call of a renderer whose throwOnError is false returns a
\* string whatever it is called with, the error fragment when the pipeline
\* raised an exception; a render call throws only when throwOnError is set,
\* and then it throws the exception of the pipeline
C5_RenderNeverThrows ==
  Rendered =>
    /\ ~rendererOptions.throwOnError =>
         /\ renderResult.outcome = "returned"
         /\ ~renderInput.isString => renderResult.html = renderError(NoStringMessage)
    /\ renderResult.outcome = "threw" =>
         /\ rendererOptions.throwOnError
         /\ ~renderInput.isString
         /\ renderResult.message = NoStringMessage

C5_Witness ==
  /\ Rendered /\ ~rendererOptions.throwOnError /\ ~renderInput.isString
  /\ renderResult.outcome = "returned"

KatexTags == { "<span class=\"katex\">", "<span class=\"katex-display\">" }
KatexErrorTags ==
  { "<span class=\"katex-error\" title=\"ParseError\">",
    "<span class=\"katex-error\" style=\"color: red;\">" }

CountIn(s, T) == Cardinality({ k \in 1..Len(s) : s[k] \in T })

\* the typesetter fails on a math span of the text
TypesetFails(text) == CountIn(processDocument(text, typesetter), KatexErrorTags) > 0

\* C6: when the typesetter fails on a math span of the input, a renderer
\* whose throwOnError is false returns HTML in which every math span is
\* either typeset or an inline error fragment, and a renderer whose
\* throwOnError is set throws
C6_TypesetFailure ==
  (Rendered /\ renderInput.isString /\ TypesetFails(renderInput.text)) =>
    IF rendererOptions.throwOnError
    THEN renderResult.outcome = "threw"
    ELSE /\ renderResult.outcome = "returned"
         /\ CountIn(renderResult.html, KatexErrorTags) > 0
         /\ CountIn(renderResult.html, KatexTags \cup KatexErrorTags)
              = CountIn(processDocument(renderInput.text, NoTypesetter), KatexTags)

MarkTypes(node) ==
  IF Has(node, "marks") THEN { node.marks[k].type : k \in 1..Len(node.marks) } ELSE {}

BoldItalic == { "bold", "italic" }

\* the editor holds one paragraph of one Text node marked bold and italic
BoldItalicDoc(d) ==
  /\ Len(Children(d)) = 1 /\ d.content[1].type = "paragraph"
  /\ Has(d.content[1], "content") /\ Len(d.content[1].content) = 1
  /\ MarkTypes(d.content[1].content[1]) = BoldItalic

\* C7: a Text node marked bold and italic, in either order, is written and
\* parsed back to a Text node of the same text that carries both marks
C7_MarksRecovered ==
  (origin = "editor" /\ pc = "reparsed" /\ BoldItalicDoc(doc)) =>
    \E k \in 1..Len(doc2.content) :
      /\ Has(doc2.content[k], "content")
      /\ \E j \in 1..Len(doc2.content[k].content) :
           LET n == doc2.content[k].content[j] IN
           /\ n.type = "text"
           /\ n.text = doc.content[1].content[1].text
           /\ MarkTypes(n) = BoldItalic

\* C8: a table held by the editor is found again after toLatex and
\* fromLatex with the same rows, columns and cell texts
C8_TablesSurvive ==
  (origin = "editor" /\ pc = "reparsed") => CellMatrices(doc2) = CellMatrices(doc)

\* C9: onChange has been called once for every update event a user edit
\* raised, with the serialization of an edited tree, and never for a
\* programmatic load
C9_EveryEditEmits ==
  /\ Len(onChangeCalls) = userEdits
  /\ \A k \in 1..Len(onChangeCalls) : onChangeCalls[k] \in { toLatex(t) : t \in EditTrees }

\* C10: when the timeout of the sync effect fires in a mounted editor for a
\* changed initialContent that differs from the content last emitted and from the
\* current serialization, and setContent does not throw, the document
\* becomes fromLatex(initialContent)
C10_ExternalSync ==
  [][(/\ timeoutId.pending /\ ~timeoutId'.pending
      /\ timeoutId.propChanged
      /\ timeoutId.initialContent # lastContentFromEditor
      /\ timeoutId.initialContent # toLatex(editorDoc)
      /\ setContentResult' # "threw")
     => editorDoc' = fromLatex(timeoutId.initialContent)]_vars

\* C11: a step of the DualModeEditor that is no user edit (a mode toggle,
\* the onCreate of the editor it mounts, a timeout of its sync effect) leaves
\* the content state as it is and calls onChange with nothing, and the
\* source view a toggle mounts shows the content
C11_ModeSwitchKeepsContent ==
  [][userEdits' = userEdits =>
       /\ dualContent' = dualContent
       /\ parentCalls' = parentCalls
       /\ (mode' = "source" => sourceDoc'.text = dualContent)]_vars

\* the modes were switched there and back after a WYSIWYG edit reached the
\* content, and the mounted editor has loaded it
C11_Witness ==
  /\ modeChanges >= 3
  /\ mode = "wysiwyg"
  /\ created
  /\ ~timeoutId.pending
  /\ userEdits > 0
  /\ dualContent \in { toLatex(t) : t \in EditTrees }

\* C12: the value useDebounce returns changes only to the value argument of
\* the last render and only when that has been the argument for delay; no
\* timer is pending once the component is unmounted; and while the component
\* stays mounted the returned value ends up equal to the last value argument
C12_Debounce ==
  /\ [][debouncedValue' # debouncedValue =>
          debouncedValue' = debounceInput /\ stable >= delay]_vars
  /\ [](~mounted => ~handler.pending)
  /\ <>[](mounted => debouncedValue = debounceInput)

\* the value argument changed more than once and the returned value has
\* followed the last of them
C12_Witness ==
  /\ mounted
  /\ inputChanges >= 2
  /\ ~handler.pending
  /\ debouncedValue = debounceInput

\* C13: when the render of the content the preview holds has failed inside
\* LatexRenderer (the content is no string, so processDocument threw) and no
\* render is pending, onError was called with the error and the preview is
\* in the error state
C13_PreviewErrorCallback ==
  (pendingRenders = <<>> /\ ~renderInput.isString) =>
    /\ previewError # NoResult
    /\ onErrorCalls # <<>>

\* C14: in every table fromLatex returns, for the source and for the text
\* the writer produced, every cell of the first row is a tableHeader and every
\* cell of a later row is a tableCell
C14_FirstRowHeader ==
  \A d \in (IF Parsed THEN { doc } ELSE {}) \cup (IF pc = "reparsed" THEN { doc2 } ELSE {}) :
    \A k \in 1..Len(TablesOf(d)) :
      \A r \in 1..Len(TablesOf(d)[k].content) :
        \A c \in 1..Len(TablesOf(d)[k].content[r].content) :
          TablesOf(d)[k].content[r].content[c].type
            = IF r = 1 THEN "tableHeader" ELSE "tableCell"

\* a table source with rule lines whose first row is skipped as empty was
\* parsed to a table of a header row and a data row
C14_Witness ==
  /\ Parsed
  /\ latexContent \in SkippedRowTables
  /\ IndexOfFrom(latexContent, Hline, 1) # 0
  /\ Len(TablesOf(doc)) = 1
  /\ Len(TablesOf(doc)[1].content) = 2

\* C15: the tree fromLatex returns for a source with a % comment has the
\* comment, the % and what follows it on the line, in no Text node
C15_CommentsStripped ==
  (Parsed /\ Count(latexContent, "%") > 0) =>
    Count(PlainTextAll(Children(doc)), "%") = 0

\* the lines of the tabular environment of a text, between its begin line
\* and its end line
TabularLines(text) ==
  LET ls == Split(text, << NL >>)
      b == MinOrZero({ i \in 1..Len(ls) : StartsWith(ls[i], BeginTabular) })
      e == MinOrZero({ i \in 1..Len(ls) : ls[i] = EndTabular })
  IN IF b = 0 \/ e <= b THEN <<>> ELSE SubSeq(ls, b + 1, e - 1)

\* C16: the text toLatex writes for a tree with one table has a tabular
\* with the column spec |c|...|c| of N columns, N the cell count of the
\* first row; between its rule lines it has one line for every row of the
\* tree, each of N cells, and a rule line comes first and after every row
C16_WriterTableShape ==
  (origin = "editor" /\ pc = "written" /\ Len(TablesOf(doc)) = 1) =>
    LET t == TablesOf(doc)[1]
        n == Len(t.content[1].content)
        ls == TabularLines(latex)
        rows == SelectSeq(ls, LAMBDA l : l # Hline)
    IN /\ IndexOfFrom(latex, TabularOpen(Repeat(<< "|", "c" >>, n) \o << "|" >>) \o << NL >>, 1)
            # 0
       /\ Len(rows) = Len(t.content)
       /\ \A r \in 1..Len(rows) : Len(Split(rows[r], << "&" >>)) = n
       /\ Len(ls) = 2 * Len(rows) + 1
       /\ \A i \in 1..Len(ls) : (i % 2 = 1) <=> (ls[i] = Hline)

\* a block of the tree, neither the first nor the last, is an empty paragraph
EmptyBetween(d) ==
  \E k \in 2..(Len(Children(d)) - 1) :
    /\ d.content[k].type = "paragraph"
    /\ Children(d.content[k]) = <<>>

\* C17: a tree the editor holds with an empty paragraph between other
\* blocks is parsed back from its written text with as many blocks as it has
C17_EmptyParagraphsKept ==
  (origin = "editor" /\ pc = "reparsed" /\ EmptyBetween(doc)) =>
    Len(doc2.content) = Len(doc.content)

\* number of nodes of a type in a sequence of nodes and below them
RECURSIVE CountType(_, _)
CountType(content, type) ==
  IF content = <<>> THEN 0
  ELSE (IF Head(content).type = type THEN 1 ELSE 0)
         + CountType(Children(Head(content)), type)
         + CountType(Tail(content), type)

\* C18: the text toLatex writes has one line-break marker for every
\* HardBreak node of the tree, those in the inline content of a paragraph,
\* heading, list item or table cell included; the markers that end table
\* rows, one for every rule line after the first of a table, are not counted
C18_HardBreaksWritten ==
  (origin = "editor" /\ pc = "written") =>
    Count(latex, RowEnd[1]) - (Count(latex, Hline[1]) - Len(TablesOf(doc)))
      = CountType(Children(doc), "hardBreak")

DeclarationOrder == << "bold", "italic", "underline", "code", "strike", "highlight", "link" >>

\* the marks of a sequence in declaration order
RECURSIVE InOrder(_, _)
InOrder(types, marks) ==
  IF types = <<>> THEN <<>>
  ELSE SelectSeq(marks, LAMBDA m : m.type = Head(types)) \o InOrder(Tail(types), marks)

\* the tree is one paragraph of one Text node that has marks
MarkedDoc(d) ==
  /\ Len(Children(d)) = 1
  /\ d.content[1].type = "paragraph"
  /\ Len(Children(d.content[1])) = 1
  /\ Has(d.content[1].content[1], "marks")

\* C19: the text toLatex writes for a Text node with marks has the text
\* wrapped in the commands of its marks in declaration order, the first
\* innermost and the link command outermost, in whatever order the marks
\* array has them
C19_MarkOrder ==
  (origin = "editor" /\ pc = "written" /\ MarkedDoc(doc)) =>
    IndexOfFrom(latex,
                WrapMarks(InOrder(DeclarationOrder, doc.content[1].content[1].marks),
                          doc.content[1].content[1].text),
                1) # 0

\* the preamble and the line that opens the document
WrapperHead ==
  << "\\documentclass", "{", "article", "}", NL,
     "\\usepackage", "{", "amsmath", "}", NL,
     "\\usepackage", "{", "hyperref", "}", NL,
     "\\usepackage", "{", "soul", "}", NL,
     "\\usepackage", "{", "xcolor", "}", NL,
     "\\begin", "{", "document", "}", NL >>

EndsWith(s, p) == Len(s) >= Len(p) /\ SubSeq(s, Len(s) - Len(p) + 1, Len(s)) = p

OpenParagraphs(html, i) ==
  Count(SubSeq(html, 1, i), "<p>") - Count(SubSeq(html, 1, i), "</p>")

\* C21: in the output of render no table of the table transform stands
\* inside a paragraph element, whatever text is before or after the table
\* environment and with or without a blank line between them
C21_TablesNotWrapped ==
  (Rendered /\ renderResult.outcome = "returned") =>
    \A i \in 1..Len(renderResult.html) :
      renderResult.html[i] = TableTag => OpenParagraphs(renderResult.html, i) = 0

\* the text is one display-math span
DisplaySpan(text) ==
  \E m \in MathExpressions : text = << "$", "$" >> \o m \o << "$", "$" >>

\* C22: the output of render for a text that is one display-math span has
\* the typeset fragment in the document container and no paragraph tag
C22_DisplayMathNotWrapped ==
  (Rendered /\ renderInput.isString /\ DisplaySpan(renderInput.text)) =>
    /\ renderResult.outcome = "returned"
    /\ Head(renderResult.html) = DocumentTag
    /\ Count(renderResult.html, "<p>") = 0

HeaderCellTags ==
  { "<th style=\"text-align: left;\">", "<th style=\"text-align: right;\">",
    "<th style=\"text-align: center;\">" }

\* C23: the output of render for a tabular environment with the column
\* spec |c|c| outside any table environment has one table element with two
\* header cells and no caption element
C23_BareTabularRendered ==
  (Rendered /\ renderInput.isString /\ renderInput.text = BareTabular) =>
    /\ renderResult.outcome = "returned"
    /\ Count(renderResult.html, TableTag) = 1
    /\ Cardinality({ k \in 1..Len(renderResult.html) :
                       renderResult.html[k] \in HeaderCellTags }) = 2
    /\ Count(renderResult.html, "<div class=\"latex-table-caption\">") = 0

\* the closing tag of an element the environment stage produces
ElementClose(tag) ==
  IF tag = "<ul>" THEN "</ul>"
  ELSE IF tag = "<ol>" THEN "</ol>"
  ELSE IF tag = "<pre>" THEN "</pre>"
  ELSE "</div>"

\* C28: in the output of render a list, verbatim or center element stands
\* outside every paragraph element and has no paragraph tag between its
\* opening tag and its closing tag, also when its source has a blank line
C28_BlocksNotSplit ==
  (Rendered /\ renderResult.outcome = "returned") =>
    \A i \in 1..Len(renderResult.html) :
      renderResult.html[i] \in { "<ul>", "<ol>", "<pre>", CenterTag } =>
        /\ OpenParagraphs(renderResult.html, i) = 0
        /\ \A k \in i..(FirstIn(renderResult.html, i,
                                { ElementClose(renderResult.html[i]) }) - 1) :
             renderResult.html[k] \notin { "<p>", "</p>" }

\* the text is one verbatim environment
VerbatimText(text) ==
  /\ StartsWith(text, Env("\\begin", "verbatim"))
  /\ EndsWith(text, Env("\\end", "verbatim"))
  /\ Len(text) >= 8

\* C29: the output of render for a verbatim environment has the text of the
\* environment, dollar-delimited spans included, unchanged between the tags
\* that open and close its pre/code element
C29_VerbatimUntouched ==
  (Rendered /\ renderInput.isString /\ VerbatimText(renderInput.text)) =>
    /\ renderResult.outcome = "returned"
    /\ IndexOfFrom(renderResult.html,
                   << "<pre>", "<code>" >>
                     \o SubSeq(renderInput.text, 5, Len(renderInput.text) - 4)
                     \o << "</code>", "</pre>" >>,
                   1) # 0

\* index of the first line at or after i that starts with one of the tags,
\* Len(lines) + 1 when there is none
RECURSIVE LineWith(_, _, _)
LineWith(lines, i, tags) ==
  IF i > Len(lines) THEN i
  ELSE IF \E t \in tags : StartsWith(Trim(lines[i]), t) THEN i
  ELSE LineWith(lines, i + 1, tags)

\* the source starts with the begin line of a list that has its end marker,
\* and has no document environment
ListSource(source) ==
  LET lines == Split(source, << NL >>)
      first == Trim(lines[1])
  IN /\ IndexOfFrom(source, BeginDocument, 1) = 0
     /\ \/ StartsWith(first, BeginItemize)
           /\ LineWith(lines, 2, { EndItemize }) <= Len(lines)
        \/ StartsWith(first, BeginEnumerate)
           /\ LineWith(lines, 2, { EndEnumerate }) <= Len(lines)

\* C24: the list node fromLatex returns for a list has one ListItem for
\* every \item line, the words of every line between the begin line and
\* the end marker are in the items, continuation lines included, and the
\* nodes after the list are the ones of the lines after the end marker
C24_ListItemBoundaries ==
  (Parsed /\ ListSource(latexContent)) =>
    LET lines == Split(latexContent, << NL >>)
        e == LineWith(lines, 2, { IF StartsWith(Trim(lines[1]), BeginItemize)
                                  THEN EndItemize ELSE EndEnumerate })
        inside == SubSeq(lines, 2, e - 1)
        list == doc.content[1]
    IN /\ list.type \in { "bulletList", "orderedList" }
       /\ Len(list.content) = Len(SelectSeq(inside, LAMBDA l : StartsWith(Trim(l), Item)))
       /\ \A w \in Words : Count(PlainText(list), w) = Count(Lines(inside), w)
       /\ Tail(doc.content)
            \in { <<>>, fromLatex(Lines(SubSeq(lines, e + 1, Len(lines)))).content }

\* the source is one line of words and blanks with one math delimiter that
\* nothing closes: a single "$", or a single "$$"
UnclosedMath(source) ==
  /\ Len(source) > 0
  /\ \A k \in 1..Len(source) : source[k] \in Words \cup { SP, "$" }
  /\ source[1] # SP /\ source[Len(source)] # SP
  /\ \/ Count(source, "$") = 1
     \/ Count(source, "$") = 2 /\ IndexOfFrom(source, << "$", "$" >>, 1) # 0

\* C25: the tree fromLatex returns for a line with a math delimiter that
\* nothing closes has no math node, and the delimiter is in the same Text
\* node as the plain text around it: the paragraph is one Text node with
\* the text of the line
C25_UnclosedMathLiteral ==
  (Parsed /\ UnclosedMath(latexContent)) =>
    doc.content = << [type |-> "paragraph", content |-> << TextNode(latexContent) >>] >>

\* the column spec of the first tabular environment of a text, <<>> when
\* there is none
ColSpecOf(text) ==
  LET head == BracedMatch(text, BeginTabular, 1)
  IN IF head.open = 0 THEN <<>> ELSE SubSeq(text, head.open + 1, head.close - 1)

\* the alignment letters of a column spec
LettersOf(colSpec) == SelectSeq(colSpec, LAMBDA ch : ch \in { "l", "c", "r" })

\* C26: the column count the table sub-scan takes from a column spec with
\* alignment letters is the number of the letters, separators or none
\* between them, and every row of the table fromLatex returns has that many
\* cells at least
C26_ColumnCount ==
  (Parsed /\ Len(LettersOf(ColSpecOf(latexContent))) > 0) =>
    /\ ColCountOf(ColSpecOf(latexContent)) = Len(LettersOf(ColSpecOf(latexContent)))
    /\ \A k \in 1..Len(TablesOf(doc)) :
         \A r \in 1..Len(TablesOf(doc)[k].content) :
           Len(TablesOf(doc)[k].content[r].content)
             >= Len(LettersOf(ColSpecOf(latexContent)))

\* the sync callback runs and calls setContent
SyncLoads == timeoutId.pending /\ ~timeoutId'.pending /\ setContentResult' # "none"

\* the last thing the editor did with its content was to emit a user edit
EditIsLatest ==
  /\ Len(onChangeCalls) > 0
  /\ lastContentFromEditor = onChangeCalls[Len(onChangeCalls)]

\* C27: when the latest content of the editor is an edit it emitted, the
\* sync callback never calls setContent with a text the editor emitted, so
\* no older emitted text replaces the document after a newer edit
C27_NoStaleEcho ==
  [][(SyncLoads /\ EditIsLatest) =>
       \A k \in 1..Len(onChangeCalls) : onChangeCalls[k] # timeoutId.initialContent]_vars

\* the values of the index i of the for loop of fromLatex at the start of
\* its iterations, n of them at most, and its value after the last of them
RECURSIVE ScanIndices(_, _, _)
ScanIndices(lines, loop, n) ==
  IF n = 0 \/ loop.i > Len(lines) THEN << loop.i >>
  ELSE << loop.i >> \o ScanIndices(lines, BlockStep(lines, loop), n - 1)

\* the texts fromLatex has been called with
ParsedTexts ==
  (IF Parsed THEN { latexContent } ELSE {})
    \cup (IF pc = "reparsed" THEN { latex } ELSE {})

\* C30: for every text fromLatex was called with, the index of the outer
\* scan is larger at every iteration than at the one before, also after a
\* list or table sub-scan with or without its end marker, and is past the
\* last line after one iteration for every line at most; the index of the
\* inline scan is larger after every iteration on every line; and no word
\* is in the text nodes of the tree more often than in the source
C30_ScanAdvances ==
  \A text \in ParsedTexts :
    LET lines == Split(DocumentBody(text), << NL >>)
        idx == ScanIndices(lines, [i |-> 1, nodes |-> <<>>, currentParagraph |-> <<>>],
                           Len(lines))
    IN /\ \A k \in 1..(Len(idx) - 1) : idx[k + 1] > idx[k]
       /\ idx[Len(idx)] > Len(lines)
       /\ \A l \in 1..Len(lines) :
            \A i \in 1..Len(lines[l]) : InlineNext(lines[l], i) > i
       /\ \A w \in Words :
            Count(PlainTextAll(Children(fromLatex(text))), w) <= Count(text, w)

\* a list without its end marker and a table without \end{table} have been
\* scanned to the last line of the source
C30_Witness ==
  /\ Parsed
  /\ pc = "tree"
  /\ latexContent
       = Lines(<< Lines(<< BeginItemize, Item \o << SP, "a" >> >>),
                  Lines(<< BeginTable, TabularOpen(ColSpec2),
                           SourceRow(<< << "a" >>, << "b" >> >>), EndTabular >>) >>)
  /\ Len(NodesOfType(doc, { "bulletList" })) = 1

====
